---- MODULE Spec2Model ----
(***************************************************************************)
(* Model of the agentic tool-orchestration engine: handleSendMessage       *)
(* (App.tsx), runChat / callStrategist / callFinalReviewer (geminiService) *)
(* and the ToolExecutor (toolExecutor.tsx).                                *)
(*                                                                         *)
(* Every await on an external service is a suspension point of the single  *)
(* run in flight; one action models the code between two suspension        *)
(* points.  The outcomes of the external services (Strategist, function-   *)
(* calling model, Reviewer, report-image renderer) are the inputs.         *)
(***************************************************************************)
EXTENDS Integers, Sequences, FiniteSets, TLC

VARIABLES
    (* React state of App *)
    isLoading,              \* App.tsx isLoading
    clarificationState,     \* App.tsx clarificationState (NoState or a record)
    appArtifacts,           \* App.tsx artifacts
    lastResult,             \* how the last runChat call ended, seen by handleSendMessage
    (* ToolExecutor fields *)
    dataContext,            \* base datasets given to loadData
    intermediateData,       \* name -> DataSet
    stepCounter,
    artifacts,              \* the Artifact Registry
    (* locals of the runChat call in flight *)
    pc,                     \* suspension point of the run
    message,                \* the user message of the run
    attempt,                \* callStrategist: attempt number (one advisory call each)
    waits,                  \* callStrategist: delays (ms) slept so far
    analysisInstruction,    \* analysisInstructionForReviewer
    currentMessage,         \* message handed to chat.sendMessage
    turn,
    emptyResponseCount,
    invalidResponseCount,
    consecutiveErrors,
    newArtifactGeneratedThisTurn,
    newSteps,               \* steps appended to fullPlan for the latest tool calls
    stepIdx,                \* position of the for loop over newSteps
    toolExecutionParts,
    responseText,           \* result.text of the latest model response
    reviewStep,             \* status in fullPlan of the conduct_final_review step
    (* observations of the run (what the callbacks and services saw) *)
    sent,                   \* chat.sendMessage calls of the run
    finalAnswers,           \* texts passed to onFinalAnswer in the run
    lastEvent,              \* the last outcome delivered by an external service
    respWindow,             \* emptiness of the last two model responses
    toolWindow,             \* outcome of the last two tool executions
    artifactsGenerated,     \* onArtifactGenerated calls of the run
    (* earlier runChat calls still awaiting: a reset does not end the run  *)
    (* in flight, and the next handleSendMessage starts another            *)
    detached,
    (* datasets on which verify_visualization_data has run in this run     *)
    verified

appVars  == <<isLoading, clarificationState, appArtifacts, lastResult>>
execVars == <<dataContext, intermediateData, stepCounter, artifacts>>
runVars  == <<pc, message, attempt, waits, analysisInstruction, currentMessage,
              turn, emptyResponseCount, invalidResponseCount, consecutiveErrors,
              newArtifactGeneratedThisTurn, newSteps, stepIdx, toolExecutionParts,
              responseText, reviewStep>>
obsVars  == <<sent, finalAnswers, lastEvent, respWindow, toolWindow,
              artifactsGenerated>>
vars     == <<appVars, execVars, runVars, obsVars, detached, verified>>

-----------------------------------------------------------------------------
(* Bounds of the exploration *)
MaxSteps        == 2    \* datasets the model may ask to create in a session
MaxArtifacts    == 2    \* artifacts the model may ask to create in a session
MaxCallsPerTurn == 2    \* tool calls in one model response
MaxModelTurns   == 2    \* model responses explored per run in Spec
MaxClarRounds   == 2    \* successive "unclear" answers of the Strategist
MaxDetached     == 1    \* runs left awaiting by a reset when another run starts
MaxRegistry     == 3    \* artifacts in the registry where titles are resolved
MaxRows         == 2    \* rows of a base dataset given to a join

(* Program constants *)
MAX_TURNS              == 200
MAX_CONSECUTIVE_ERRORS == 2
MAX_INVALID_RESPONSES  == 2
maxRetries             == 3
ShortTextLimit         == 40

-----------------------------------------------------------------------------
(* Texts.  A text is a record of the properties the code inspects: its      *)
(* trimmed length, whether it starts with a generic acknowledgement phrase  *)
(* and whether it contains the [USER_INPUT_REQUIRED] marker.  NoText is the *)
(* falsy responseText (undefined or "").                                    *)
NoText == [id |-> "", len |-> 0, generic |-> FALSE, marker |-> FALSE]
MarkerText == [id |-> "question", len |-> 60, generic |-> FALSE, marker |-> TRUE]
ShortText == [id |-> "ok", len |-> 2, generic |-> FALSE, marker |-> FALSE]
GenericText == [id |-> "ack", len |-> 80, generic |-> TRUE, marker |-> FALSE]
AnswerText == [id |-> "answer", len |-> 300, generic |-> FALSE, marker |-> FALSE]
RevisedText == [id |-> "revised", len |-> 300, generic |-> FALSE, marker |-> FALSE]
ResponseTexts == {NoText, MarkerText, ShortText, GenericText, AnswerText}

(* Fixed final messages of runChat *)
STEP_LIMIT_MSG  == [id |-> "step_limit", len |-> 25, generic |-> FALSE, marker |-> FALSE]
NO_RESPONSE_MSG == [id |-> "no_response", len |-> 25, generic |-> FALSE, marker |-> FALSE]
INVALID_MSG     == [id |-> "invalid_repeated", len |-> 30, generic |-> FALSE, marker |-> FALSE]
TOOL_ERROR_MSG  == [id |-> "tool_error", len |-> 60, generic |-> FALSE, marker |-> FALSE]

Truthy(text) == text.id # ""

-----------------------------------------------------------------------------
(* Datasets *)
ColumnOrder == <<"currency", "balance">>

BaseName == "account_balance"

DataSets ==
    [n \in {BaseName} |->
        [name |-> BaseName,
         data |-> << [currency |-> "USD", balance |-> 10],
                     [currency |-> "JPY", balance |-> 3],
                     [currency |-> "EUR"] >>,
         columnNames |-> ColumnOrder]]

(* Object.keys(row): the columns of the row in insertion order *)
KeysFrom(row, cols) == SelectSeq(cols, LAMBDA c : c \in DOMAIN row)

(* the columns of the joined and forecast rows, in the order the code     *)
(* inserts them                                                           *)
KeyOrder ==
    ColumnOrder \o <<"id", "name", "acct", "name_right", "date", "value",
                     "forecast", "forecast_upper", "forecast_lower",
                     "region", "desk", "amount", "amount_count", "amount_sum">>

ObjectKeys(row) == KeysFrom(row, KeyOrder)

StepName(n) == "step_" \o ToString(n) \o "_result"

DatasetNames == {BaseName} \cup {StepName(n) : n \in 1..MaxSteps}

(* ToolExecutor.getDataset: intermediate store first, then base context.   *)
HasDataset(store, ctx, name) == name \in DOMAIN store \/ name \in DOMAIN ctx

getDataset(store, ctx, name) ==
    IF name \in DOMAIN store THEN store[name] ELSE ctx[name]

(* Variant of saveName: every result is saved under the first name *)
saveNameFixed(counter) == StepName(1)

(* ToolExecutor.saveResult: the store after saving data under the next name *)
saveName(counter) == StepName(counter + 1)

(* Variant of saveResult: the name is built before stepCounter++ *)
saveResultUnderCounter(store, counter, data) ==
    [n \in DOMAIN store \cup {StepName(counter)} |->
        IF n = StepName(counter)
        THEN [name |-> StepName(counter),
              data |-> data,
              columnNames |-> IF Len(data) > 0 THEN ObjectKeys(data[1]) ELSE <<>>]
        ELSE store[n]]

saveResult(store, counter, data) ==
    [n \in DOMAIN store \cup {saveName(counter)} |->
        IF n = saveName(counter)
        THEN [name |-> saveName(counter),
              data |-> data,
              columnNames |-> IF Len(data) > 0 THEN ObjectKeys(data[1]) ELSE <<>>]
        ELSE store[n]]

(* ToolExecutor.filterData: the row predicate *)
FilterRow(row, column, operator, value) ==
    IF column \notin DOMAIN row THEN FALSE
    ELSE CASE operator = "==" -> row[column] = value
           [] operator = "!=" -> row[column] # value
           [] operator = ">"  -> row[column] > value
           [] operator = "<"  -> row[column] < value
           [] operator = ">=" -> row[column] >= value
           [] operator = "<=" -> row[column] <= value
           [] OTHER -> FALSE

filterData(data, column, operator, value) ==
    SelectSeq(data, LAMBDA row : FilterRow(row, column, operator, value))

-----------------------------------------------------------------------------
(* Artifacts.  A title is a sequence of tokens; a type tag such as          *)
(* "[bar_chart]" is one token, and so is a uniqueness suffix "(2)".         *)
TagTokens == {"[table]", "[bar_chart]", "[pie_chart]", "[line_chart]",
              "[world_map]", "[scatter_plot]", "[waterfall_chart]"}

RegistryTypes == {"table", "bar_chart", "pie_chart", "line_chart", "world_map",
                  "scatter_plot", "waterfall_chart", "report"}

NoSummary == ""

Artifact(type, title, data, summary, parts, image) ==
    [type |-> type, title |-> title, isReviewed |-> FALSE, data |-> data,
     summary |-> summary, artifacts |-> parts, imageBase64 |-> image]

(* title.startsWith(prefix) ? title : `${prefix} ${title}` *)
PrefixedTitle(prefix, title) ==
    IF title # <<>> /\ Head(title) = prefix THEN title ELSE <<prefix>> \o title

(* position of the first type tag of a title, 0 when it has none *)
RECURSIVE FirstTag(_, _)
FirstTag(title, i) ==
    IF i > Len(title) THEN 0
    ELSE IF title[i] \in TagTokens THEN i ELSE FirstTag(title, i + 1)

(* generateReport: the predicate of reversedArtifacts.find *)
TitleMatches(title, reqTitle) ==
    \/ title = reqTitle
    \/ LET t == FirstTag(title, 1)
           rest == IF t = 0 THEN <<>> ELSE SubSeq(title, t + 1, Len(title))
       IN  t # 0 /\ rest # <<>> /\ rest = reqTitle

(* [...this.artifacts].reverse().find(...): the last match, as a sequence  *)
(* of zero or one artifact                                                 *)
RECURSIVE FindLast(_, _, _)
FindLast(arts, reqTitle, i) ==
    IF i = 0 THEN <<>>
    ELSE IF TitleMatches(arts[i].title, reqTitle) THEN <<arts[i]>>
         ELSE FindLast(arts, reqTitle, i - 1)

RECURSIVE foundArtifacts(_, _)
foundArtifacts(arts, titles) ==
    IF titles = <<>> THEN <<>>
    ELSE (IF Head(titles) = <<>> THEN <<>>
          ELSE FindLast(arts, Head(titles), Len(arts)))
         \o foundArtifacts(arts, Tail(titles))

(* Variant of uniqueOrderedArtifacts: nothing is filtered out *)
uniqueOrderedArtifactsUnfiltered(valid) == valid

(* validArtifacts.filter((art, index, self) =>                             *)
(*     index === self.findIndex(a => a.title === art.title))               *)
uniqueOrderedArtifacts(valid) ==
    LET Keep(i) == \A j \in 1..(i - 1) : valid[j].title # valid[i].title
        RECURSIVE From(_)
        From(i) == IF i > Len(valid) THEN <<>>
                   ELSE (IF Keep(i) THEN <<valid[i]>> ELSE <<>>) \o From(i + 1)
    IN  From(1)

(* ToolExecutor.execute: the title under which a new artifact is stored    *)
SuffixToken(counter) == "(" \o ToString(counter) \o ")"

(* Variant of UniqueTitle: the suffixed title is not checked again *)
UniqueTitleOnce(arts, originalTitle, finalTitle, counter) ==
    IF \E i \in 1..Len(arts) : arts[i].title = finalTitle
    THEN Append(originalTitle, SuffixToken(counter))
    ELSE finalTitle

RECURSIVE UniqueTitle(_, _, _, _)
UniqueTitle(arts, originalTitle, finalTitle, counter) ==
    IF \E i \in 1..Len(arts) : arts[i].title = finalTitle
    THEN UniqueTitle(arts, originalTitle,
                     Append(originalTitle, SuffixToken(counter)), counter + 1)
    ELSE finalTitle

-----------------------------------------------------------------------------
(* Tool calls.  Every call carries the same fields; a tool reads its own.   *)
ToolCall(name, ds, title, titles, column, operator, value) ==
    [name |-> name, dataset_name |-> ds, title |-> title,
     artifact_titles |-> titles, summary |-> "draft summary",
     column |-> column, operator |-> operator, value |-> value]

NoResult == [new_dataset_name |-> "", rows |-> 0, message |-> ""]

(* What a tool function returns or throws, with the store it leaves.       *)
Returned(result, artifactSeq, store, counter) ==
    [threw |-> FALSE, error |-> "", result |-> result, artifact |-> artifactSeq,
     store |-> store, counter |-> counter]

(* Variant of Threw: stepCounter++ has run before the throw *)
ThrewAfterCounting(error, store, counter) ==
    [threw |-> TRUE, error |-> error, result |-> NoResult, artifact |-> <<>>,
     store |-> store, counter |-> counter + 1]

Threw(error, store, counter) ==
    [threw |-> TRUE, error |-> error, result |-> NoResult, artifact |-> <<>>,
     store |-> store, counter |-> counter]

DatasetNotFound == "Dataset not found"
ToolNotFound == "Tool not found"

getDatasetSchema(call, store, ctx, counter) ==
    IF ~HasDataset(store, ctx, call.dataset_name)
    THEN Threw(DatasetNotFound, store, counter)
    ELSE Returned([NoResult EXCEPT !.message = "schema"], <<>>, store, counter)

filterDataTool(call, store, ctx, counter) ==
    IF ~HasDataset(store, ctx, call.dataset_name)
    THEN Threw(DatasetNotFound, store, counter)
    ELSE LET dataset == getDataset(store, ctx, call.dataset_name)
             filtered == filterData(dataset.data, call.column, call.operator, call.value)
         IN  Returned([NoResult EXCEPT !.new_dataset_name = saveName(counter),
                                       !.rows = Len(filtered)],
                      <<>>, saveResult(store, counter, filtered), counter + 1)

(* render_table: a Markdown table in the result, and no artifact *)
renderTable(call, store, ctx, counter) ==
    IF ~HasDataset(store, ctx, call.dataset_name)
    THEN Threw(DatasetNotFound, store, counter)
    ELSE Returned([NoResult EXCEPT !.message = "markdown_table"], <<>>, store, counter)

(* renderBarChart, renderPieChart, renderLineChart, renderWorldMap,        *)
(* renderScatterPlot, renderWaterfallChart: one body, apart from the type  *)
ChartKinds == {"bar_chart", "pie_chart", "line_chart", "world_map",
               "scatter_plot", "waterfall_chart"}

RenderName(kind) == "render_" \o kind

renderChart(kind, call, store, ctx, counter) ==
    IF ~HasDataset(store, ctx, call.dataset_name)
    THEN Threw(DatasetNotFound, store, counter)
    ELSE LET dataset == getDataset(store, ctx, call.dataset_name)
         IN  Returned([NoResult EXCEPT !.message = "Chart created."],
                      <<Artifact(kind, PrefixedTitle("[" \o kind \o "]", call.title),
                                 dataset.data, NoSummary, <<>>, "")>>,
                      store, counter)

renderBarChart(call, store, ctx, counter) ==
    renderChart("bar_chart", call, store, ctx, counter)

(* verifyVisualizationData: the value column is call.column; the status   *)
(* is the first word of the returned message                              *)
verifyVisualizationData(call, store, ctx, counter) ==
    IF ~HasDataset(store, ctx, call.dataset_name)
    THEN Threw(DatasetNotFound, store, counter)
    ELSE LET dataset == getDataset(store, ctx, call.dataset_name)
             sample == SelectSeq(dataset.data, LAMBDA row : call.column \in DOMAIN row)
             status == IF Len(dataset.data) = 0 THEN "WARNING"
                       ELSE IF ~\E i \in 1..Len(dataset.columnNames) :
                                    dataset.columnNames[i] = call.column
                            THEN "WARNING"
                       ELSE IF sample # <<>> /\ sample[1][call.column] \notin Int
                            THEN "WARNING"
                       ELSE "OK"
         IN  Returned([NoResult EXCEPT !.message = status], <<>>, store, counter)

-----------------------------------------------------------------------------
(* Cells of the joined and forecast datasets: a CsvRow value is a string, *)
(* a number or null; a property a row does not have reads as undefined.   *)
Str(v) == [str |-> v]
Num(v) == [num |-> v]
Null == [null |-> TRUE]
Undefined == [undefined |-> TRUE]

NoRow == [c \in {} |-> Null]

(* row[col] *)
Get(row, col) == IF col \in DOMAIN row THEN row[col] ELSE Undefined

(* v ?? null *)
OrNull(v) == IF v \in {Undefined, Null} THEN Null ELSE v

(* row[col] = v *)
Put(row, col, v) == [c \in DOMAIN row \cup {col} |-> IF c = col THEN v ELSE row[c]]

(* joinDatasets.mergeRows: the forEach over the right dataset's columns *)
RECURSIVE AddRightColumns(_, _, _, _, _)
AddRightColumns(newRow, rightData, cols, leftOn, rightOn) ==
    IF cols = <<>> THEN newRow
    ELSE LET col == Head(cols)
             next ==
                 IF col = rightOn
                 THEN IF Get(newRow, leftOn) = Null /\ Get(rightData, col) # Null
                      THEN Put(newRow, leftOn, Get(rightData, col))
                      ELSE newRow
                 ELSE Put(newRow, IF col \in DOMAIN newRow THEN col \o "_right" ELSE col,
                          OrNull(Get(rightData, col)))
         IN  AddRightColumns(next, rightData, Tail(cols), leftOn, rightOn)

(* joinDatasets.mergeRows; NoRow stands for a null row *)
mergeRows(leftData, rightData, leftCols, rightCols, leftOn, rightOn) ==
    AddRightColumns([c \in {leftCols[i] : i \in 1..Len(leftCols)} |-> OrNull(Get(leftData, c))],
                    rightData, rightCols, leftOn, rightOn)

supportedJoins == {"inner", "left", "right", "full"}

JoinNotSupported == "Join type is not supported"

(* the rows joinDatasets pushes to joinedData *)
joinedData(leftDs, rightDs, leftOn, rightOn, joinType) ==
    LET merge(l, r) == mergeRows(l, r, leftDs.columnNames, rightDs.columnNames,
                                 leftOn, rightOn)
        group(key) == SelectSeq(rightDs.data, LAMBDA row : Get(row, rightOn) = key)
        RECURSIVE MergeAll(_, _)
        MergeAll(l, rows) ==
            IF rows = <<>> THEN <<>> ELSE <<merge(l, Head(rows))>> \o MergeAll(l, Tail(rows))
        RECURSIVE FromLeft(_)
        FromLeft(i) ==
            IF i > Len(leftDs.data) THEN <<>>
            ELSE LET leftRow == leftDs.data[i]
                     matching == group(Get(leftRow, leftOn))
                 IN  (IF matching # <<>>
                      THEN IF joinType \in {"inner", "left", "full"}
                           THEN MergeAll(leftRow, matching) ELSE <<>>
                      ELSE IF joinType \in {"left", "full"}
                           THEN <<merge(leftRow, NoRow)>> ELSE <<>>)
                     \o FromLeft(i + 1)
        matchedRightKeys ==
            {Get(leftDs.data[i], leftOn) : i \in {j \in 1..Len(leftDs.data) :
                                             group(Get(leftDs.data[j], leftOn)) # <<>>}}
        unmatched ==
            SelectSeq(rightDs.data, LAMBDA row : Get(row, rightOn) \notin matchedRightKeys)
    IN  FromLeft(1) \o
        (IF joinType \in {"right", "full"}
         THEN [i \in 1..Len(unmatched) |-> merge(NoRow, unmatched[i])]
         ELSE <<>>)

joinDatasets(call, store, ctx, counter) ==
    IF call.join_type \notin supportedJoins
    THEN Threw(JoinNotSupported, store, counter)
    ELSE IF ~HasDataset(store, ctx, call.dataset_name)
            \/ ~HasDataset(store, ctx, call.right_dataset_name)
    THEN Threw(DatasetNotFound, store, counter)
    ELSE LET rows == joinedData(getDataset(store, ctx, call.dataset_name),
                                getDataset(store, ctx, call.right_dataset_name),
                                call.left_on_column, call.right_on_column,
                                call.join_type)
         IN  Returned([NoResult EXCEPT !.new_dataset_name = saveName(counter),
                                       !.rows = Len(rows),
                                       !.message = IF rows = <<>> THEN "warning" ELSE ""],
                      <<>>, saveResult(store, counter, rows), counter + 1)

-----------------------------------------------------------------------------
(* forecastTimeSeries.  A date is held as the number of its day, Day(d)    *)
(* being the cell with the ISO string of that day; a JavaScript number is  *)
(* a Num cell, NaN or Infinity.  The arithmetic is exact: the series       *)
(* explored have an integer slope and intercept.                           *)
Day(d) == [day |-> d]
NaN == [nan |-> TRUE]
Infinity == [infinity |-> TRUE]

IsNum(c) == "num" \in DOMAIN c

(* new Date(cell).getTime(), in days: new Date(null) is day 0 *)
DateOf(c) ==
    IF "day" \in DOMAIN c THEN Num(c.day)
    ELSE IF IsNum(c) THEN c
    ELSE IF c = Null THEN Num(0)
    ELSE NaN

(* Number(cell): Number(null) is 0 *)
NumberOf(c) == IF IsNum(c) THEN c ELSE IF c = Null THEN Num(0) ELSE NaN

(* a / b of two numbers: 0 / 0 is NaN, r / 0 is Infinity *)
Over(a, b) ==
    IF b = 0 THEN (IF a = 0 THEN NaN ELSE Infinity) ELSE Num(a \div b)

(* Math.sqrt of a quotient *)
SquareRoot(q) ==
    IF ~IsNum(q) THEN q
    ELSE IF q.num < 0 THEN NaN
    ELSE Num(CHOOSE r \in 0..q.num : r * r <= q.num /\ (r + 1) * (r + 1) > q.num)

(* forecastValue + sign * 1.96 * stdError *)
WithMargin(forecastValue, sign, stdError) ==
    IF ~IsNum(forecastValue) THEN forecastValue
    ELSE IF ~IsNum(stdError) THEN stdError
    ELSE Num(forecastValue.num + sign * ((196 * stdError.num) \div 100))

(* .sort((a, b) => a.date.getTime() - b.date.getTime()) *)
RECURSIVE SortByDate(_, _)
SortByDate(rows, dateColumn) ==
    IF rows = <<>> THEN <<>>
    ELSE LET rest == SortByDate(Tail(rows), dateColumn)
             d == DateOf(Get(Head(rows), dateColumn)).num
             before == SelectSeq(rest, LAMBDA r : DateOf(Get(r, dateColumn)).num < d)
             after == SelectSeq(rest, LAMBDA r : DateOf(Get(r, dateColumn)).num >= d)
         IN  before \o <<Head(rows)>> \o after

(* the switch on frequency; the calendar stepping of monthly and           *)
(* quarterly is not expressed in days, any other frequency leaves the date *)
NextDate(d, frequency) == IF frequency = "daily" THEN d + 1 ELSE d

InsufficientData == "Time series forecasting requires at least two data points."

(* the points (x, y) of parsedData *)
parsedPoints(data, dc, vc) ==
    LET parsed == SortByDate(SelectSeq(data,
                                 LAMBDA row : /\ DateOf(Get(row, dc)) # NaN
                                              /\ NumberOf(Get(row, vc)) # NaN), dc)
    IN  [i \in 1..Len(parsed) |->
            [x |-> DateOf(Get(parsed[i], dc)).num, y |-> NumberOf(Get(parsed[i], vc)).num]]

(* the least-squares line through the points and its standard error *)
RECURSIVE SumOver(_, _, _)
SumOver(points, px, py) ==          \* sum of x^px * y^py
    IF points = <<>> THEN 0
    ELSE (IF px = 0 THEN 1 ELSE IF px = 1 THEN Head(points).x
          ELSE Head(points).x * Head(points).x)
         * (IF py = 0 THEN 1 ELSE Head(points).y)
         + SumOver(Tail(points), px, py)

fittedLine(points) ==
    LET n == Len(points)
        sumX == SumOver(points, 1, 0)
        sumY == SumOver(points, 0, 1)
        slope == Over(n * SumOver(points, 1, 1) - sumX * sumY,
                      n * SumOver(points, 2, 0) - sumX * sumX)
    IN  IF ~IsNum(slope)
        THEN [slope |-> slope, intercept |-> slope, stdError |-> slope]
        ELSE LET intercept == (sumY - slope.num * sumX) \div n
                 RECURSIVE Sse(_)
                 Sse(i) ==
                     IF i = 0 THEN 0
                     ELSE LET r == points[i].y - (slope.num * points[i].x + intercept)
                          IN  Sse(i - 1) + r * r
             IN  [slope |-> slope, intercept |-> Num(intercept),
                  stdError |-> SquareRoot(Over(Sse(n), n - 2))]

(* predict(time) *)
predict(line, time) ==
    IF IsNum(line.slope) THEN Num(line.slope.num * time + line.intercept.num)
    ELSE line.slope

forecastTimeSeries(call, store, ctx, counter) ==
    IF ~HasDataset(store, ctx, call.dataset_name)
    THEN Threw(DatasetNotFound, store, counter)
    ELSE
    LET dataset == getDataset(store, ctx, call.dataset_name)
        dc == call.date_column
        points == parsedPoints(dataset.data, dc, call.value_column)
        line == fittedLine(points)
        RECURSIVE FutureDate(_)
        FutureDate(i) ==
            IF i = 0 THEN points[Len(points)].x ELSE NextDate(FutureDate(i - 1), call.frequency)
        forecastRow(i) ==
            LET forecastValue == predict(line, FutureDate(i))
                nulls == [c \in {dataset.columnNames[j] : j \in 1..Len(dataset.columnNames)}
                            |-> Null]
            IN  Put(Put(Put(Put(nulls, dc, Day(FutureDate(i))),
                            "forecast", forecastValue),
                        "forecast_upper", WithMargin(forecastValue, 1, line.stdError)),
                    "forecast_lower", WithMargin(forecastValue, -1, line.stdError))
        combinedData ==
            [i \in 1..Len(dataset.data) |->
                Put(Put(Put(dataset.data[i], "forecast", Null), "forecast_upper", Null),
                    "forecast_lower", Null)]
            \o [i \in 1..call.forecast_periods |-> forecastRow(i)]
    IN  IF Len(points) < 2
        THEN Threw(InsufficientData, store, counter)
        ELSE Returned([NoResult EXCEPT !.new_dataset_name = saveName(counter),
                                       !.rows = Len(combinedData),
                                       !.message = "Generated a forecast"],
                      <<>>, saveResult(store, counter, combinedData), counter + 1)

(* image is what renderReportToImage returned: "" when it failed *)
generateReport(call, arts, image, store, counter) ==
    Returned([NoResult EXCEPT !.message = "Report has been generated."],
             <<Artifact("report", call.title, <<>>, call.summary,
                        uniqueOrderedArtifacts(foundArtifacts(arts, call.artifact_titles)),
                        image)>>,
             store, counter)

(* aggregateData.  A text cell of a grouped column is a sequence of        *)
(* tokens, with the delimiter "-" a token of its own.                      *)
(* String(cell) as Array.prototype.join writes it: "" for null, undefined  *)
JoinText(c) ==
    IF c \in {Null, Undefined} THEN <<>>
    ELSE IF IsNum(c) THEN <<ToString(c.num)>> ELSE c.str

(* groupByCols.map(c => row[c]).join('-') *)
RECURSIVE groupKey(_, _)
groupKey(row, cols) ==
    IF cols = <<>> THEN <<>>
    ELSE JoinText(Get(row, Head(cols)))
         \o (IF Len(cols) = 1 THEN <<>> ELSE <<"-">> \o groupKey(row, Tail(cols)))

(* positions of the rows that open a group, in order (the keys explored    *)
(* are not integers, so Object.values keeps insertion order)               *)
groupStarts(data, cols) ==
    SelectSeq([i \in 1..Len(data) |-> i],
              LAMBDA i : \A j \in 1..(i - 1) : groupKey(data[j], cols) # groupKey(data[i], cols))

(* groups[key] *)
groupOf(data, cols, first) ==
    SelectSeq(data, LAMBDA row : groupKey(row, cols) = groupKey(data[first], cols))

supportedAggregations == {"sum", "count", "average", "max", "min"}

UnsupportedAggregation == "Unsupported aggregation function"

(* group.map(r => Number(r[aggCol])).filter(v => !isNaN(v)), and for max   *)
(* and min the cells that are numbers (the cells explored are numbers or   *)
(* null)                                                                   *)
numbersOf(group, aggCol, nullAsZero) ==
    SelectSeq([i \in 1..Len(group) |->
                  IF nullAsZero THEN NumberOf(Get(group[i], aggCol)) ELSE Get(group[i], aggCol)],
              IsNum)

RECURSIVE sumOf(_)
sumOf(values) == IF values = <<>> THEN 0 ELSE Head(values).num + sumOf(Tail(values))

(* d3.mean(values) || 0, kept as the quotient sum / n *)
meanOf(values) ==
    IF values = <<>> \/ sumOf(values) = 0 THEN Num(0)
    ELSE [ratio |-> <<sumOf(values), Len(values)>>]

aggregateOf(group, aggCol, aggFunc) ==
    CASE aggFunc = "sum" -> Num(sumOf(numbersOf(group, aggCol, TRUE)))
      [] aggFunc = "count" -> Num(Len(group))
      [] aggFunc = "average" -> meanOf(numbersOf(group, aggCol, TRUE))
      [] aggFunc = "max" ->
            IF numbersOf(group, aggCol, FALSE) = <<>> THEN Null
            ELSE Num(CHOOSE m \in {numbersOf(group, aggCol, FALSE)[i].num :
                                      i \in 1..Len(numbersOf(group, aggCol, FALSE))} :
                        \A i \in 1..Len(numbersOf(group, aggCol, FALSE)) :
                            numbersOf(group, aggCol, FALSE)[i].num <= m)
      [] aggFunc = "min" ->
            IF numbersOf(group, aggCol, FALSE) = <<>> THEN Null
            ELSE Num(CHOOSE m \in {numbersOf(group, aggCol, FALSE)[i].num :
                                      i \in 1..Len(numbersOf(group, aggCol, FALSE))} :
                        \A i \in 1..Len(numbersOf(group, aggCol, FALSE)) :
                            numbersOf(group, aggCol, FALSE)[i].num >= m)

(* resultRow: the grouped columns of the group's first row, then the       *)
(* aggregate under `${aggCol}_${aggFunc}`                                  *)
aggregatedRow(group, cols, aggCol, aggFunc) ==
    [c \in {cols[i] : i \in 1..Len(cols)} \cup {aggCol \o "_" \o aggFunc} |->
        IF c = aggCol \o "_" \o aggFunc THEN aggregateOf(group, aggCol, aggFunc)
        ELSE Get(group[1], c)]

aggregated(data, cols, aggCol, aggFunc) ==
    [k \in 1..Len(groupStarts(data, cols)) |->
        aggregatedRow(groupOf(data, cols, groupStarts(data, cols)[k]), cols, aggCol, aggFunc)]

(* the default case of the switch throws inside the map over the groups:   *)
(* with no group nothing is thrown                                         *)
aggregateData(call, store, ctx, counter) ==
    IF ~HasDataset(store, ctx, call.dataset_name)
    THEN Threw(DatasetNotFound, store, counter)
    ELSE IF getDataset(store, ctx, call.dataset_name).data # <<>>
            /\ call.aggregation_function \notin supportedAggregations
    THEN Threw(UnsupportedAggregation, store, counter)
    ELSE Returned([NoResult EXCEPT
                      !.new_dataset_name = saveName(counter),
                      !.rows = Len(groupStarts(getDataset(store, ctx, call.dataset_name).data,
                                               call.group_by_columns))],
                  <<>>,
                  saveResult(store, counter,
                             aggregated(getDataset(store, ctx, call.dataset_name).data,
                                        call.group_by_columns, call.aggregation_column,
                                        call.aggregation_function)),
                  counter + 1)

(* the switch of ToolExecutor.execute *)
Dispatch(call, store, ctx, counter, arts, image) ==
    CASE call.name = "get_dataset_schema" -> getDatasetSchema(call, store, ctx, counter)
      [] call.name = "filter_data"        -> filterDataTool(call, store, ctx, counter)
      [] call.name = "render_bar_chart"   -> renderBarChart(call, store, ctx, counter)
      [] call.name = "render_table"       -> renderTable(call, store, ctx, counter)
      [] call.name = "join_datasets"      -> joinDatasets(call, store, ctx, counter)
      [] call.name = "aggregate_data"     -> aggregateData(call, store, ctx, counter)
      [] call.name = "forecast_time_series" ->
             forecastTimeSeries(call, store, ctx, counter)
      [] call.name = "verify_visualization_data" ->
             verifyVisualizationData(call, store, ctx, counter)
      [] call.name \in {RenderName(k) : k \in ChartKinds \ {"bar_chart"}} ->
             renderChart(CHOOSE k \in ChartKinds : call.name = RenderName(k),
                         call, store, ctx, counter)
      [] call.name = "generate_report"    -> generateReport(call, arts, image, store, counter)
      [] OTHER                            -> Threw(ToolNotFound, store, counter)

(* Variant of registered: the artifact is returned but not kept *)
registeredNowhere(r, arts) == [outcome |-> r, arts |-> arts]

(* ToolExecutor.execute, after the tool returned r: the registry with the *)
(* produced artifact stored under a unique title                          *)
registered(r, arts) ==
    IF ~r.threw /\ r.artifact # <<>> /\ r.artifact[1].type \in RegistryTypes
    THEN LET newArtifact == r.artifact[1]
             finalArtifact ==
                 [newArtifact EXCEPT
                    !.title = UniqueTitle(arts, newArtifact.title, newArtifact.title, 2)]
         IN  [outcome |-> [r EXCEPT !.artifact = <<finalArtifact>>],
              arts |-> Append(arts, finalArtifact)]
    ELSE [outcome |-> r, arts |-> arts]

(* ToolExecutor.execute: the tool's outcome and the registry it leaves *)
execute(call, store, ctx, counter, arts, image) ==
    registered(Dispatch(call, store, ctx, counter, arts, image), arts)

(* Variant of markAllArtifactsAsReviewed: reports are left unreviewed *)
markChartsAsReviewed(arts) ==
    [i \in 1..Len(arts) |->
        IF arts[i].type = "report" THEN arts[i] ELSE [arts[i] EXCEPT !.isReviewed = TRUE]]

(* ToolExecutor.markAllArtifactsAsReviewed *)
markAllArtifactsAsReviewed(arts) ==
    [i \in 1..Len(arts) |-> [arts[i] EXCEPT !.isReviewed = TRUE]]

(* ToolExecutor.updateArtifacts: one update; image is the re-rendered      *)
(* preview ("" when the rendering failed)                                  *)
RECURSIVE FindIndex(_, _, _)
FindIndex(arts, title, i) ==
    IF i > Len(arts) THEN 0
    ELSE IF arts[i].title = title THEN i ELSE FindIndex(arts, title, i + 1)

updateArtifact(arts, update, image) ==
    LET i == FindIndex(arts, update.title, 1)
    IN  IF i # 0 /\ arts[i].type = "report" /\ update.summary # NoSummary
        THEN [arts EXCEPT ![i] = [arts[i] EXCEPT
                    !.summary = update.summary,
                    !.imageBase64 = IF image # "" THEN image ELSE @]]
        ELSE arts

RECURSIVE updateArtifacts(_, _, _)
updateArtifacts(arts, updates, image) ==
    IF updates = <<>> THEN arts
    ELSE updateArtifacts(updateArtifact(arts, Head(updates), image), Tail(updates), image)

-----------------------------------------------------------------------------
(* Inputs: what the user and the external services may deliver.            *)
Messages == {"show balances", "last quarter"}

NoState == [open |-> FALSE, originalQuery |-> "", history |-> <<>>]

(* Outcomes of one advisory call of the Strategist.  A payload is the      *)
(* value JSON.parse returned; isNull is the JSON value null, a missing      *)
(* field is undefined.                                                     *)
Payload(isNull, hasClear, clear, hasQuestions) ==
    [failed |-> FALSE, isNull |-> isNull, has_is_clear |-> hasClear,
     is_clear |-> clear, has_questions |-> hasQuestions,
     questions_for_user |-> IF hasQuestions /\ ~clear THEN <<"which period?">> ELSE <<>>,
     instructions_for_planner_ai |-> IF clear THEN "refined" ELSE ""]

CallFailed == [Payload(FALSE, FALSE, FALSE, FALSE) EXCEPT !.failed = TRUE]

ClearPayload         == Payload(FALSE, TRUE, TRUE, TRUE)
UnclearPayload       == Payload(FALSE, TRUE, FALSE, TRUE)
NullPayload          == Payload(TRUE, FALSE, FALSE, FALSE)
EmptyObjectPayload   == Payload(FALSE, FALSE, FALSE, FALSE)
NoQuestionsPayload   == Payload(FALSE, TRUE, FALSE, FALSE)

StrategistOutcomes ==
    {CallFailed, ClearPayload, UnclearPayload, NullPayload, EmptyObjectPayload,
     NoQuestionsPayload}

WellFormedStrategistOutcomes == {CallFailed, ClearPayload, UnclearPayload}

FALLBACK_INSTRUCTION == "strategist failed, process the query directly"

(* callStrategist: the value returned after maxRetries failed attempts *)
StrategistFallback ==
    [Payload(FALSE, TRUE, TRUE, TRUE) EXCEPT
        !.instructions_for_planner_ai = FALLBACK_INSTRUCTION]

(* callStrategist: the delay slept after a failed attempt that is not the  *)
(* last: setTimeout(resolve, 1000 * attempt)                               *)
RetryDelay(n) == 1000 * n

(* Variant of IsLastAttempt: one attempt more *)
IsPastLastAttempt(n) == n > maxRetries

IsLastAttempt(n) == n = maxRetries

(* Outcomes of the advisory call of the Reviewer *)
Review(failed, isNull, decision, feedback, revisedText, revisedArtifacts) ==
    [failed |-> failed, isNull |-> isNull, decision |-> decision,
     feedback |-> feedback, revisedText |-> revisedText,
     revisedArtifacts |-> revisedArtifacts]

ReportTitle == <<"Report">>
SalesTitle == <<"Sales">>

ReviewFailed     == Review(TRUE, FALSE, "", "", NoText, <<>>)
ReviewNull       == Review(FALSE, TRUE, "", "", NoText, <<>>)
ReviewNoDecision == Review(FALSE, FALSE, "", "", NoText, <<>>)
ReviewApprove    == Review(FALSE, FALSE, "approve", "", NoText, <<>>)
ReviewApproveRevised ==
    Review(FALSE, FALSE, "approve", "polished", RevisedText,
           << [title |-> ReportTitle, summary |-> "revised summary"] >>)
ReviewRevise     == Review(FALSE, FALSE, "revise", "wrong totals", NoText, <<>>)
ReviewReviseNoFeedback == Review(FALSE, FALSE, "revise", "", NoText, <<>>)

ReviewOutcomes ==
    {ReviewFailed, ReviewNull, ReviewNoDecision, ReviewApprove, ReviewApproveRevised,
     ReviewRevise, ReviewReviseNoFeedback}

LeanReviewOutcomes == {ReviewApprove, ReviewRevise}

(* callFinalReviewer: the value returned for an outcome of the call *)
callFinalReviewer(outcome, finalAnswerDraft) ==
    IF outcome.failed
    THEN Review(FALSE, FALSE, "approve", "Reviewer AI failed, approving automatically.",
                finalAnswerDraft, <<>>)
    ELSE outcome

(* Variant of IsRevise: the feedback is not tested *)
IsReviseDecision(reviewResult) == reviewResult.decision = "revise"

(* runChat: reviewResult.decision === 'revise' && reviewResult.feedback *)
IsRevise(reviewResult) == reviewResult.decision = "revise" /\ reviewResult.feedback # ""

(* runChat: reviewResult.revisedText || responseText *)
FinalText(reviewResult, draft) ==
    IF Truthy(reviewResult.revisedText) THEN reviewResult.revisedText ELSE draft

Images == {"", "jpeg"}

(* Tool calls the model may issue *)
SchemaCall(ds) == ToolCall("get_dataset_schema", ds, <<>>, <<>>, "", "", 0)
FilterCall(ds) == ToolCall("filter_data", ds, <<>>, <<>>, "balance", ">", 5)
RenderCall(ds) == ToolCall("render_bar_chart", ds, SalesTitle, <<>>, "", "", 0)
ReportCall(titles) == ToolCall("generate_report", "", ReportTitle, titles, "", "", 0)
UnknownCall    == ToolCall("no_such_tool", "", <<>>, <<>>, "", "", 0)
VerifyCall(ds) == ToolCall("verify_visualization_data", ds, <<>>, <<>>, "balance", "", 0)
TableCall(ds)  == ToolCall("render_table", ds, SalesTitle, <<>>, "", "", 0)
ChartCall(kind, title) == ToolCall(RenderName(kind), BaseName, title, <<>>, "", "", 0)
TitledReport(title, titles) == ToolCall("generate_report", "", title, titles, "", "", 0)

TaggedSales == <<"[bar_chart]", "Sales">>

(* join_datasets: dataset_name is left_dataset_name *)
JoinCall(left, right, leftOn, rightOn, joinType) ==
    ToolCall("join_datasets", left, <<>>, <<>>, "", "", 0)
        @@ [right_dataset_name |-> right, left_on_column |-> leftOn,
            right_on_column |-> rightOn, join_type |-> joinType]

(* Calls that create artifacts under equal, suffixed and tagged titles,    *)
(* and reports that ask for them by title.                                 *)
ArtifactCalls ==
    {VerifyCall(BaseName), TableCall(BaseName), TableCall(StepName(1)),
     ChartCall("bar_chart", SalesTitle), ChartCall("bar_chart", TaggedSales),
     ChartCall("pie_chart", SalesTitle),
     ChartCall("bar_chart", Append(SalesTitle, SuffixToken(2))),
     TitledReport(SalesTitle, <<SalesTitle>>),
     TitledReport(SalesTitle, <<TaggedSales, SalesTitle>>),
     TitledReport(ReportTitle, <<SalesTitle, <<"Costs">>, SalesTitle>>)}

(* calls that succeed, fail, or produce an artifact *)
ControlCalls == {SchemaCall(BaseName), UnknownCall, ReportCall(<<SalesTitle>>)}

(* calls that create datasets and artifacts and refer to them by name *)
DataCalls ==
    {FilterCall(ds) : ds \in DatasetNames} \cup {RenderCall(BaseName), ReportCall(<<SalesTitle>>)}

LeanToolCalls == {SchemaCall(BaseName), SchemaCall(StepName(1)), RenderCall(BaseName)}

CallLists(calls) ==
    UNION {[1..n -> calls] : n \in 1..MaxCallsPerTurn}

LeanCallLists == [1..1 -> LeanToolCalls]

ProducesDataset(call) ==
    call.name \in {"filter_data", "join_datasets", "forecast_time_series", "aggregate_data"}
ProducesArtifact(call) ==
    call.name \in {RenderName(k) : k \in ChartKinds} \cup {"generate_report"}

CountDatasets(list) == Cardinality({i \in 1..Len(list) : ProducesDataset(list[i])})

CountArtifacts(list) == Cardinality({i \in 1..Len(list) : ProducesArtifact(list[i])})

(* the session stays within MaxSteps datasets and MaxArtifacts artifacts *)
FitsWithin(list, maxArtifacts) ==
    /\ stepCounter + CountDatasets(list) <= MaxSteps
    /\ Len(artifacts) + CountArtifacts(list) <= maxArtifacts

-----------------------------------------------------------------------------
(* Messages handed to chat.sendMessage *)
Msg(kind, parts, about) == [kind |-> kind, parts |-> parts, about |-> about]

NoMsg             == Msg("none", <<>>, "")
InitialMsg(instr) == Msg("initial", <<>>, instr)
EmptyNudgeMsg     == Msg("nudge_empty", <<>>, "")
InvalidNudgeMsg   == Msg("nudge_invalid", <<>>, "")
SelfCorrectionMsg(tool, error) == Msg("self_correction", <<>>, tool \o ": " \o error)
ToolResultsMsg(parts) == Msg("tool_results", parts, "")
RevisionMsg(feedback) == Msg("revision", <<>>, feedback)

(* What the external services delivered last *)
Event(src, text, ncalls, ok, review) ==
    [src |-> src, text |-> text, ncalls |-> ncalls, ok |-> ok, review |-> review]

NoEvent == Event("none", NoText, 0, TRUE, ReviewFailed)
StrategistEvent(ok) == Event("strategist", NoText, 0, ok, ReviewFailed)
ModelEvent(text, ncalls) == Event("model", text, ncalls, TRUE, ReviewFailed)
ToolEvent(ok) == Event("tool", NoText, 0, ok, ReviewFailed)
ReviewEvent(outcome) == Event("reviewer", NoText, 0, ~outcome.failed, outcome)

Window(w, x) == IF Len(w) < 2 THEN Append(w, x) ELSE <<w[2], x>>

(* runChat: isShortOrGeneric *)
isShortOrGeneric(text) == text.len < ShortTextLimit \/ text.generic

(* runChat lines 599 and 607: emptyResponseCount after a response *)
(* Variant of emptyCountAfter: line 607 left out *)
emptyCountNeverReset(isEmpty, n) == IF isEmpty THEN n + 1 ELSE n

emptyCountAfter(isEmpty, n) == IF isEmpty THEN n + 1 ELSE 0

(* Variant of errorsAfter: line 646 left out *)
errorsNeverReset(threw, n) == IF threw THEN n + 1 ELSE n

(* runChat lines 646 and 657: consecutiveErrors after a tool execution *)
errorsAfter(threw, n) == IF threw THEN n + 1 ELSE 0

(* Variant of artifactFlagAfter: set by every successful tool call *)
artifactFlagOnAnySuccess(flag, artifactSeq) == TRUE

(* runChat lines 647-648: newArtifactGeneratedThisTurn after a successful  *)
(* tool execution that returned the given artifact (zero or one)           *)
artifactFlagAfter(flag, artifactSeq) == flag \/ artifactSeq # <<>>

(* Variant of LoopContinues: turn <= MAX_TURNS *)
LoopContinuesInclusive(t) == t <= MAX_TURNS

(* runChat: the loop condition of for (turn = 0; turn < MAX_TURNS; turn++) *)
LoopContinues(t) == t < MAX_TURNS

(* Variant of AfterLoopAnswers: hasError is not looked at *)
AfterLoopAnswersAlways(hasError, t) ==
    IF t >= MAX_TURNS THEN <<STEP_LIMIT_MSG>> ELSE <<NO_RESPONSE_MSG>>

(* runChat: the messages emitted after the loop (lines 768-774) *)
AfterLoopAnswers(hasError, t) ==
    IF hasError THEN <<>>
    ELSE IF t >= MAX_TURNS THEN <<STEP_LIMIT_MSG>> ELSE <<NO_RESPONSE_MSG>>

-----------------------------------------------------------------------------
(* Clarification state returned by runChat when the Strategist is unclear  *)
RECURSIVE JoinLines(_)
JoinLines(lines) ==
    IF lines = <<>> THEN ""
    ELSE IF Len(lines) = 1 THEN Head(lines)
         ELSE Head(lines) \o "\n" \o JoinLines(Tail(lines))

fullQuestion(questions) == JoinLines(questions) \o "\n\n[USER_INPUT_REQUIRED]"

HistoryEntry(role, text) == [role |-> role, text |-> text]

(* Variant of updatedState: the earlier history is dropped *)
updatedStateLastExchange(state, m, question) ==
    [state EXCEPT !.history = <<HistoryEntry("user", m), HistoryEntry("model", question)>>]

(* runChat lines 516-531: the open state extended with the new exchange *)
updatedState(state, m, question) ==
    [state EXCEPT !.history =
        (state.history \o <<HistoryEntry("user", m)>>) \o <<HistoryEntry("model", question)>>]

(* runChat lines 559-562 *)
newClarificationState(m, question) ==
    [open |-> TRUE, originalQuery |-> m, history |-> <<HistoryEntry("model", question)>>]

ClarRounds(state) ==
    Cardinality({i \in 1..Len(state.history) : state.history[i].role = "model"})

EmptyStore == [n \in {} |-> 0]

-----------------------------------------------------------------------------
Init ==
    /\ isLoading = FALSE
    /\ clarificationState = NoState
    /\ appArtifacts = <<>>
    /\ lastResult = "none"
    /\ dataContext = EmptyStore
    /\ intermediateData = EmptyStore
    /\ stepCounter = 0
    /\ artifacts = <<>>
    /\ pc = "idle"
    /\ message = ""
    /\ attempt = 0
    /\ waits = <<>>
    /\ analysisInstruction = ""
    /\ currentMessage = NoMsg
    /\ turn = 0
    /\ emptyResponseCount = 0
    /\ invalidResponseCount = 0
    /\ consecutiveErrors = 0
    /\ newArtifactGeneratedThisTurn = FALSE
    /\ newSteps = <<>>
    /\ stepIdx = 0
    /\ toolExecutionParts = <<>>
    /\ responseText = NoText
    /\ reviewStep = "none"
    /\ sent = 0
    /\ finalAnswers = <<>>
    /\ lastEvent = NoEvent
    /\ respWindow = <<>>
    /\ toolWindow = <<>>
    /\ artifactsGenerated = 0
    /\ detached = <<>>
    /\ verified = {}

(* How the code between two suspension points leaves the run.  Each of the *)
(* following assigns pc, isLoading, lastResult, currentMessage, turn, sent *)
(* and finalAnswers.                                                       *)
loopVars == <<currentMessage, turn, sent>>

(* the run suspends at another await *)
Suspend(at) ==
    /\ pc' = at
    /\ UNCHANGED <<isLoading, lastResult, loopVars, finalAnswers>>

(* runChat returns {status: 'completed'} after the given onFinalAnswer     *)
(* calls; handleSendMessage then clears isLoading                          *)
ReturnCompleted(answers) ==
    /\ pc' = "idle"
    /\ isLoading' = FALSE
    /\ lastResult' = "completed"
    /\ finalAnswers' = finalAnswers \o answers
    /\ UNCHANGED loopVars

(* break: the for loop is left without incrementing turn *)
Break(hasError, answers) ==
    ReturnCompleted(answers \o AfterLoopAnswers(hasError, turn))

(* continue with a new currentMessage: turn++, then either the next        *)
(* chat.sendMessage or the end of the loop                                 *)
Continue(msg) ==
    /\ currentMessage' = msg
    /\ turn' = turn + 1
    /\ IF LoopContinues(turn + 1)
       THEN /\ pc' = "model"
            /\ sent' = sent + 1
            /\ UNCHANGED <<isLoading, lastResult, finalAnswers>>
       ELSE /\ pc' = "idle"
            /\ isLoading' = FALSE
            /\ lastResult' = "completed"
            /\ sent' = sent
            /\ finalAnswers' = finalAnswers \o AfterLoopAnswers(FALSE, turn + 1)

(* an exception leaves runChat; handleSendMessage catches it *)
Throws ==
    /\ pc' = "idle"
    /\ isLoading' = FALSE
    /\ lastResult' = "thrown"
    /\ UNCHANGED <<loopVars, finalAnswers>>

-----------------------------------------------------------------------------
(* App.handleSendMessage up to the first await of runChat (the first call  *)
(* of callStrategist)                                                      *)
RemainingCalls ==
    IF pc = "executing"
    THEN [i \in 1..(Len(newSteps) - stepIdx + 1) |-> newSteps[stepIdx + i - 1].toolCall]
    ELSE <<>>

(* the run in flight as the rest of the session sees it: where it awaits,  *)
(* the tool calls it has still to execute, its consecutiveErrors           *)
DetachedRun == [at |-> pc, calls |-> RemainingCalls, errors |-> consecutiveErrors]

HandleSendMessageWith(m, dataSets) ==
    /\ ~isLoading
    /\ pc # "idle" => Len(detached) < MaxDetached
    /\ detached' = IF pc = "idle" THEN detached ELSE Append(detached, DetachedRun)
    /\ verified' = {}
    /\ isLoading' = TRUE
    /\ artifacts' = appArtifacts                    \* setArtifacts(artifacts)
    /\ dataContext' = dataSets                      \* loadData(dataSets)
    /\ message' = m
    /\ pc' = "strategist"
    /\ attempt' = 1
    /\ waits' = <<>>
    /\ analysisInstruction' = ""
    /\ currentMessage' = NoMsg
    /\ turn' = 0
    /\ emptyResponseCount' = 0
    /\ invalidResponseCount' = 0
    /\ consecutiveErrors' = 0
    /\ newArtifactGeneratedThisTurn' = FALSE
    /\ newSteps' = <<>>
    /\ stepIdx' = 0
    /\ toolExecutionParts' = <<>>
    /\ responseText' = NoText
    /\ reviewStep' = "none"
    /\ sent' = 0
    /\ finalAnswers' = <<>>
    /\ lastEvent' = NoEvent
    /\ respWindow' = <<>>
    /\ toolWindow' = <<>>
    /\ artifactsGenerated' = 0
    /\ lastResult' = "running"
    /\ UNCHANGED <<clarificationState, appArtifacts, intermediateData, stepCounter>>

HandleSendMessage(m) == HandleSendMessageWith(m, DataSets)

(* One attempt of callStrategist completes; when callStrategist returns,   *)
(* runChat runs up to its return or its first chat.sendMessage.            *)
StrategistResponds(outcome) ==
    /\ pc = "strategist"
    /\ UNCHANGED <<detached, verified>>
    /\ (~outcome.failed /\ ~outcome.isNull /\ ~(outcome.has_is_clear /\ outcome.is_clear)
            /\ outcome.has_questions)
         => ClarRounds(clarificationState) < MaxClarRounds
    /\ UNCHANGED <<appArtifacts, execVars, message, emptyResponseCount,
                   invalidResponseCount, consecutiveErrors, newArtifactGeneratedThisTurn,
                   newSteps, stepIdx, toolExecutionParts, responseText, reviewStep,
                   respWindow, toolWindow, artifactsGenerated>>
    /\ IF outcome.failed /\ ~IsLastAttempt(attempt)
       THEN /\ waits' = Append(waits, RetryDelay(attempt))
            /\ attempt' = attempt + 1
            /\ lastEvent' = StrategistEvent(FALSE)
            /\ UNCHANGED <<clarificationState, analysisInstruction>>
            /\ Suspend("strategist")
       ELSE LET strategistResponse == IF outcome.failed THEN StrategistFallback ELSE outcome
                question == fullQuestion(strategistResponse.questions_for_user)
            IN  /\ attempt' = 0         \* callStrategist has returned: its
                /\ waits' = <<>>        \* locals are gone
                /\ lastEvent' = StrategistEvent(~outcome.failed)
                /\ IF strategistResponse.isNull
                   THEN \* TypeError: cannot read is_clear of null
                        /\ UNCHANGED <<clarificationState, analysisInstruction>>
                        /\ Throws
                   ELSE IF ~(strategistResponse.has_is_clear /\ strategistResponse.is_clear)
                   THEN IF ~strategistResponse.has_questions
                        THEN \* TypeError: questions_for_user is undefined
                             /\ UNCHANGED <<clarificationState, analysisInstruction>>
                             /\ Throws
                        ELSE /\ clarificationState' =
                                   IF clarificationState.open
                                   THEN updatedState(clarificationState, message, question)
                                   ELSE newClarificationState(message, question)
                             /\ pc' = "idle"
                             /\ isLoading' = FALSE
                             /\ lastResult' = "clarification_needed"
                             /\ UNCHANGED <<analysisInstruction, loopVars, finalAnswers>>
                   ELSE /\ analysisInstruction' = strategistResponse.instructions_for_planner_ai
                        /\ clarificationState' = NoState     \* onAnalysisStart
                        /\ currentMessage' =
                               InitialMsg(strategistResponse.instructions_for_planner_ai)
                        /\ turn' = 0
                        /\ IF LoopContinues(0)
                           THEN /\ pc' = "model"
                                /\ sent' = sent + 1
                                /\ UNCHANGED <<isLoading, lastResult, finalAnswers>>
                           ELSE /\ pc' = "idle"
                                /\ isLoading' = FALSE
                                /\ lastResult' = "completed"
                                /\ sent' = sent
                                /\ finalAnswers' = finalAnswers \o AfterLoopAnswers(FALSE, 0)

-----------------------------------------------------------------------------
(* runChat line 628: the steps appended for the tool calls of a response   *)
PendingSteps(calls) ==
    [i \in 1..Len(calls) |-> [toolCall |-> calls[i], status |-> "pending", error |-> ""]]

(* chat.sendMessage resolves with (text, calls): runChat lines 595-765 up  *)
(* to the next await or the return.  turnCap bounds the responses explored *)
(* in one run.                                                             *)
ModelRespondsWithin(text, calls, turnCap, maxArtifacts) ==
    /\ pc = "model"
    /\ turn < turnCap
    /\ UNCHANGED <<detached, verified>>
    /\ FitsWithin(calls, maxArtifacts)
    /\ lastEvent' = ModelEvent(text, Len(calls))
    /\ respWindow' = Window(respWindow, IF ~Truthy(text) /\ calls = <<>> THEN "E" ELSE "N")
    /\ responseText' = text
    /\ emptyResponseCount' = emptyCountAfter(~Truthy(text) /\ calls = <<>>, emptyResponseCount)
    /\ UNCHANGED <<clarificationState, appArtifacts, execVars, message, attempt, waits,
                   analysisInstruction, consecutiveErrors, newArtifactGeneratedThisTurn,
                   toolWindow, artifactsGenerated>>
    /\ IF ~Truthy(text) /\ calls = <<>>
       THEN /\ UNCHANGED <<invalidResponseCount, newSteps, stepIdx, toolExecutionParts,
                           reviewStep>>
            /\ IF emptyResponseCount' > 1
               THEN Break(FALSE, <<>>)
               ELSE Continue(EmptyNudgeMsg)
       ELSE IF text.marker
       THEN /\ invalidResponseCount' = 0
            /\ UNCHANGED <<newSteps, stepIdx, toolExecutionParts, reviewStep>>
            /\ ReturnCompleted(<<text>>)
       ELSE IF calls # <<>>
       THEN /\ invalidResponseCount' = 0
            /\ newSteps' = PendingSteps(calls)
            /\ stepIdx' = 1
            /\ toolExecutionParts' = <<>>
            /\ UNCHANGED reviewStep
            /\ Suspend("executing")
       ELSE IF newArtifactGeneratedThisTurn
       THEN /\ invalidResponseCount' = 0
            /\ reviewStep' = "pending"
            /\ UNCHANGED <<newSteps, stepIdx, toolExecutionParts>>
            /\ Suspend("reviewing")
       ELSE IF isShortOrGeneric(text)
       THEN /\ invalidResponseCount' = invalidResponseCount + 1
            /\ UNCHANGED <<newSteps, stepIdx, toolExecutionParts, reviewStep>>
            /\ IF invalidResponseCount' >= MAX_INVALID_RESPONSES
               THEN ReturnCompleted(<<INVALID_MSG>>)
               ELSE Continue(InvalidNudgeMsg)
       ELSE /\ invalidResponseCount' = 0
            /\ UNCHANGED <<newSteps, stepIdx, toolExecutionParts, reviewStep>>
            /\ ReturnCompleted(<<text>>)

ModelResponds(text, calls, turnCap) ==
    ModelRespondsWithin(text, calls, turnCap, MaxArtifacts)

(* toolExecutionParts and the loop position are local to the block that   *)
(* executes the tool calls of one response; the steps stay in fullPlan     *)
LeaveToolBlock ==
    /\ stepIdx' = 0
    /\ toolExecutionParts' = <<>>

(* toolExecutor.execute of the step at stepIdx resolves or rejects: runChat *)
(* lines 643-695 for that step, up to the next await or the return.  image  *)
(* is what the report renderer delivers when the tool is generate_report.   *)
ExecuteTool(image) ==
    /\ pc = "executing"
    /\ UNCHANGED detached
    /\ \E x \in {execute(newSteps[stepIdx].toolCall, intermediateData, dataContext,
                           stepCounter, artifacts, image)} :
       LET step == newSteps[stepIdx]
           r == x.outcome
           isVerify == step.toolCall.name = "verify_visualization_data" /\ ~r.threw
           parts == Append(toolExecutionParts,
                           [name |-> step.toolCall.name, response |-> r.result])
       IN  /\ intermediateData' = r.store
           /\ stepCounter' = r.counter
           /\ artifacts' = x.arts
           /\ verified' = IF isVerify THEN verified \cup {step.toolCall.dataset_name}
                                      ELSE verified
           /\ lastEvent' = ToolEvent(~r.threw)
           /\ toolWindow' = Window(toolWindow, IF r.threw THEN "F" ELSE "S")
           /\ consecutiveErrors' = errorsAfter(r.threw, consecutiveErrors)
           /\ UNCHANGED <<clarificationState, dataContext, message, attempt, waits,
                          analysisInstruction, emptyResponseCount, invalidResponseCount,
                          responseText, reviewStep, respWindow>>
           /\ IF ~r.threw
              THEN /\ newArtifactGeneratedThisTurn' =
                          artifactFlagAfter(newArtifactGeneratedThisTurn, r.artifact)
                   /\ IF r.artifact # <<>>
                      THEN /\ appArtifacts' = Append(appArtifacts, r.artifact[1])
                           /\ artifactsGenerated' = artifactsGenerated + 1
                      ELSE UNCHANGED <<appArtifacts, artifactsGenerated>>
                   /\ newSteps' = [newSteps EXCEPT ![stepIdx].status = "completed"]
                   /\ IF stepIdx < Len(newSteps)
                      THEN /\ toolExecutionParts' = parts
                           /\ stepIdx' = stepIdx + 1
                           /\ Suspend("executing")
                      ELSE /\ LeaveToolBlock
                           /\ Continue(ToolResultsMsg(parts))
              ELSE /\ newSteps' = [newSteps EXCEPT ![stepIdx].status = "error",
                                                   ![stepIdx].error = r.error]
                   /\ LeaveToolBlock
                   /\ UNCHANGED <<newArtifactGeneratedThisTurn, appArtifacts,
                                  artifactsGenerated>>
                   /\ IF consecutiveErrors' >= MAX_CONSECUTIVE_ERRORS
                      THEN Break(TRUE, <<TOOL_ERROR_MSG>>)
                      ELSE Continue(SelfCorrectionMsg(step.toolCall.name, r.error))

(* callFinalReviewer resolves: runChat lines 712-743.  image is what the    *)
(* report renderer delivers when updateArtifacts re-renders a report.       *)
ReviewerResponds(outcome, image) ==
    /\ pc = "reviewing"
    /\ UNCHANGED <<detached, verified>>
    /\ lastEvent' = ReviewEvent(outcome)
    /\ UNCHANGED <<clarificationState, dataContext, intermediateData, stepCounter,
                   message, attempt, waits, analysisInstruction, emptyResponseCount,
                   invalidResponseCount, consecutiveErrors, newArtifactGeneratedThisTurn,
                   newSteps, stepIdx, toolExecutionParts, responseText, respWindow,
                   toolWindow, artifactsGenerated>>
    /\ LET reviewResult == callFinalReviewer(outcome, responseText)
       IN  IF reviewResult.isNull
           THEN \* TypeError: cannot read decision of null
                /\ UNCHANGED <<artifacts, appArtifacts, reviewStep>>
                /\ Throws
           ELSE IF IsRevise(reviewResult)
           THEN /\ reviewStep' = "warning"
                /\ UNCHANGED <<artifacts, appArtifacts>>
                /\ Continue(RevisionMsg(reviewResult.feedback))
           ELSE LET updated == IF Len(reviewResult.revisedArtifacts) > 0
                               THEN updateArtifacts(artifacts, reviewResult.revisedArtifacts,
                                                    image)
                               ELSE artifacts
                    reviewedArtifacts == markAllArtifactsAsReviewed(updated)
                IN  /\ artifacts' = reviewedArtifacts
                    /\ appArtifacts' = reviewedArtifacts        \* onReviewCompleted
                    /\ UNCHANGED reviewStep
                    /\ ReturnCompleted(<<FinalText(reviewResult, responseText)>>)

-----------------------------------------------------------------------------
(* Variant of reset: only the datasets are dropped *)
resetDatasets(store, counter, arts) ==
    [store |-> EmptyStore, counter |-> counter, arts |-> arts]

(* ToolExecutor.reset *)
reset(store, counter, arts) ==
    [store |-> EmptyStore, counter |-> 0, arts |-> <<>>]

(* App.handleReset: the state of App and of the ToolExecutor is cleared    *)
(* and isLoading is set to false; the promise of a run in flight is not    *)
(* cancelled, so the run goes on from its await.                           *)
HandleReset ==
    /\ isLoading' = FALSE
    /\ appArtifacts' = <<>>
    /\ clarificationState' = NoState
    /\ intermediateData' = reset(intermediateData, stepCounter, artifacts).store
    /\ stepCounter' = reset(intermediateData, stepCounter, artifacts).counter
    /\ artifacts' = reset(intermediateData, stepCounter, artifacts).arts
    /\ UNCHANGED <<lastResult, dataContext, runVars, obsVars, detached, verified>>

(* An await of the detached run resolves and the run goes on to its next   *)
(* await or to its return, working on the same ToolExecutor and the same   *)
(* App state as the run started after it.  Its Strategist answers clear,   *)
(* its model asks the user a question, its Reviewer approves.              *)
DetachedResumes(image) ==
    /\ detached # <<>>
    /\ UNCHANGED <<lastResult, dataContext, runVars, obsVars, verified>>
    /\ LET run == Head(detached)
       IN  CASE run.at = "strategist" ->
                  /\ clarificationState' = NoState             \* onAnalysisStart
                  /\ detached' = <<[run EXCEPT !.at = "model"]>> \o Tail(detached)
                  /\ UNCHANGED <<isLoading, appArtifacts, intermediateData, stepCounter,
                                 artifacts>>
             [] run.at = "model" ->
                  /\ isLoading' = FALSE                         \* finally
                  /\ detached' = Tail(detached)
                  /\ UNCHANGED <<clarificationState, appArtifacts, intermediateData,
                                 stepCounter, artifacts>>
             [] run.at = "executing" ->
                  \E x \in {execute(Head(run.calls), intermediateData, dataContext,
                                      stepCounter, artifacts, image)} :
                  LET r == x.outcome
                      errors == errorsAfter(r.threw, run.errors)
                  IN  /\ intermediateData' = r.store
                      /\ stepCounter' = r.counter
                      /\ artifacts' = x.arts
                      /\ appArtifacts' = IF ~r.threw /\ r.artifact # <<>>
                                         THEN Append(appArtifacts, r.artifact[1])
                                         ELSE appArtifacts
                      /\ UNCHANGED clarificationState
                      /\ IF r.threw /\ errors >= MAX_CONSECUTIVE_ERRORS
                         THEN /\ isLoading' = FALSE
                              /\ detached' = Tail(detached)
                         ELSE /\ UNCHANGED isLoading
                              /\ detached' =
                                    <<IF ~r.threw /\ Len(run.calls) > 1
                                      THEN [run EXCEPT !.calls = Tail(run.calls),
                                                       !.errors = errors]
                                      ELSE [run EXCEPT !.at = "model", !.calls = <<>>,
                                                       !.errors = errors]>>
                                    \o Tail(detached)
             [] run.at = "reviewing" ->
                  /\ artifacts' = markAllArtifactsAsReviewed(artifacts)
                  /\ appArtifacts' = markAllArtifactsAsReviewed(artifacts)
                  /\ isLoading' = FALSE
                  /\ detached' = Tail(detached)
                  /\ UNCHANGED <<clarificationState, intermediateData, stepCounter>>

-----------------------------------------------------------------------------
(* The session: any user message, any outcome of the external services, MaxModelTurns model  *)
(* responses per run.                                                      *)
Next ==
    \/ \E m \in Messages : HandleSendMessage(m)
    \/ \E outcome \in StrategistOutcomes : StrategistResponds(outcome)
    \/ \E text \in ResponseTexts :
         \E calls \in {<<>>} \cup (IF text \in {NoText, MarkerText}
                                   THEN CallLists(ControlCalls) ELSE {}) :
            ModelResponds(text, calls, MaxModelTurns)
    \/ \E image \in {"jpeg"} : ExecuteTool(image)
    \/ \E outcome \in ReviewOutcomes, image \in Images : ReviewerResponds(outcome, image)

Spec == Init /\ [][Next]_vars

(* Runs up to the turn ceiling: the model answers as long as runChat asks, *)
(* with few kinds of tool calls.                                           *)
NextTurns ==
    \/ \E m \in {"show balances"} : HandleSendMessage(m)
    \/ \E outcome \in {CallFailed, ClearPayload} : StrategistResponds(outcome)
    \/ \E text \in ResponseTexts \ {GenericText} :
         \E calls \in {<<>>} \cup (IF text = NoText THEN LeanCallLists ELSE {}) :
            ModelResponds(text, calls, MAX_TURNS)
    \/ \E image \in {"jpeg"} : ExecuteTool(image)
    \/ \E outcome \in LeanReviewOutcomes, image \in {"jpeg"} :
          ReviewerResponds(outcome, image)

SpecTurns == Init /\ [][NextTurns]_vars

(* Tool calls that create datasets and artifacts and refer to them.        *)
NextCalls ==
    \/ \E m \in {"show balances"} : HandleSendMessage(m)
    \/ \E outcome \in {ClearPayload} : StrategistResponds(outcome)
    \/ \E calls \in CallLists(DataCalls) : ModelResponds(NoText, calls, MaxModelTurns)
    \/ ModelResponds(AnswerText, <<>>, MaxModelTurns)
    \/ \E image \in {"jpeg"} : ExecuteTool(image)
    \/ \E outcome \in {ReviewApprove}, image \in {"jpeg"} : ReviewerResponds(outcome, image)

SpecCalls == Init /\ [][NextCalls]_vars

(* Sending and resetting in any order, also while a run awaits.            *)
NextReset ==
    \/ \E m \in {"show balances"} : HandleSendMessage(m)
    \/ HandleReset
    \/ \E outcome \in {ClearPayload} : StrategistResponds(outcome)
    \/ \E calls \in LeanCallLists : ModelResponds(NoText, calls, MaxModelTurns)
    \/ ModelResponds(AnswerText, <<>>, MaxModelTurns)
    \/ \E image \in {"jpeg"} : ExecuteTool(image)
    \/ \E outcome \in {ReviewApprove}, image \in {"jpeg"} : ReviewerResponds(outcome, image)
    \/ \E image \in {"jpeg"} : DetachedResumes(image)

SpecReset == Init /\ [][NextReset]_vars

(* Charts, tables and reports, one tool call per model response.           *)
NextArtifacts ==
    \/ \E m \in {"show balances"} : HandleSendMessage(m)
    \/ \E outcome \in {ClearPayload} : StrategistResponds(outcome)
    \/ \E call \in ArtifactCalls :
          ModelRespondsWithin(NoText, <<call>>, MaxModelTurns, MaxRegistry)
    \/ ModelRespondsWithin(AnswerText, <<>>, MaxModelTurns, MaxRegistry)
    \/ \E image \in {"jpeg"} : ExecuteTool(image)
    \/ \E outcome \in {ReviewApprove}, image \in {"jpeg"} : ReviewerResponds(outcome, image)

SpecArtifacts == Init /\ [][NextArtifacts]_vars

(* Every render tool, on a dataset that exists and on one that does not.  *)
RenderCalls ==
    {ChartCall(kind, SalesTitle) : kind \in ChartKinds}
        \cup {TableCall(BaseName), TableCall(StepName(1)), RenderCall(StepName(1)),
              VerifyCall(BaseName)}

NextRender ==
    \/ \E m \in {"show balances"} : HandleSendMessage(m)
    \/ \E outcome \in {ClearPayload} : StrategistResponds(outcome)
    \/ \E call \in RenderCalls : ModelResponds(NoText, <<call>>, MaxModelTurns)
    \/ ModelResponds(AnswerText, <<>>, MaxModelTurns)
    \/ \E image \in {"jpeg"} : ExecuteTool(image)
    \/ \E outcome \in {ReviewApprove}, image \in {"jpeg"} : ReviewerResponds(outcome, image)

SpecRender == Init /\ [][NextRender]_vars

ForecastCall(ds, dateColumn, valueColumn, periods, frequency) ==
    ToolCall("forecast_time_series", ds, <<>>, <<>>, "", "", 0)
        @@ [date_column |-> dateColumn, value_column |-> valueColumn,
            forecast_periods |-> periods, frequency |-> frequency]

(* Joins of two base datasets of one to MaxRows rows, and of a dataset    *)
(* without rows, under every join type.                                   *)
LeftName == BaseName
RightName == "transaction_history"

JoinKeys == {Str("a"), Str("b"), Null}

LeftRow(key) == [id |-> key, name |-> Str("l")]
RightRow(key) == [acct |-> key, name |-> Str("r")]

LeftTables == UNION {[1..n -> {LeftRow(k) : k \in JoinKeys}] : n \in 1..MaxRows}
RightTables == UNION {[1..n -> {RightRow(k) : k \in JoinKeys}] : n \in 1..MaxRows}

(* App: the DataSet built from a parsed CSV file *)
LoadedDataSet(name, data) ==
    [name |-> name, data |-> data, columnNames |-> ObjectKeys(data[1])]

JoinData(left, right) ==
    [n \in {LeftName, RightName} |->
        IF n = LeftName THEN LoadedDataSet(n, left) ELSE LoadedDataSet(n, right)]

(* a filter that keeps no row *)
EmptyFilterCall(ds, column) == ToolCall("filter_data", ds, <<>>, <<>>, column, "==", Str("none"))

JoinCalls ==
    {JoinCall(LeftName, RightName, "id", "acct", t) : t \in supportedJoins}
    \cup {JoinCall(StepName(1), RightName, "id", "acct", t) : t \in {"left", "full"}}
    \cup {EmptyFilterCall(LeftName, "id")}

NextJoin ==
    \/ \E left \in LeftTables, right \in RightTables :
          HandleSendMessageWith("show balances", JoinData(left, right))
    \/ \E outcome \in {ClearPayload} : StrategistResponds(outcome)
    \/ \E call \in JoinCalls : ModelResponds(NoText, <<call>>, MaxModelTurns)
    \/ \E image \in {"jpeg"} : ExecuteTool(image)

SpecJoin == Init /\ [][NextJoin]_vars

(* Aggregations of a dataset of one to MaxRows rows, and of the dataset    *)
(* a filter left without rows.                                             *)
AggregateCall(ds, groupBy, aggCol, aggFunc) ==
    ToolCall("aggregate_data", ds, <<>>, <<>>, "", "", 0)
        @@ [group_by_columns |-> groupBy, aggregation_column |-> aggCol,
            aggregation_function |-> aggFunc]

DeskRows ==
    {[region |-> Str(r), desk |-> Str(d), amount |-> a] :
        r \in {<<"a">>, <<"a", "-", "b">>}, d \in {<<"c">>, <<"b", "-", "c">>},
        a \in {Num(1), Null}}

DeskTables == UNION {[1..n -> DeskRows] : n \in 1..MaxRows}

DeskData(rows) == [n \in {BaseName} |-> LoadedDataSet(n, rows)]

AggregateCalls ==
    {AggregateCall(ds, <<"region", "desk">>, "amount", f) :
        ds \in {BaseName, StepName(1)}, f \in {"count", "sum", "median"}}
    \cup {ToolCall("filter_data", BaseName, <<>>, <<>>, "region", "==", Str(<<"none">>))}

NextAggregate ==
    \/ \E rows \in DeskTables : HandleSendMessageWith("show balances", DeskData(rows))
    \/ \E outcome \in {ClearPayload} : StrategistResponds(outcome)
    \/ \E call \in AggregateCalls : ModelResponds(NoText, <<call>>, MaxModelTurns)
    \/ \E image \in {"jpeg"} : ExecuteTool(image)

SpecAggregate == Init /\ [][NextAggregate]_vars

(* Forecasts of a series of one to MaxRows rows, some without a date or a *)
(* value that can be parsed.                                              *)
SeriesRows ==
    {[date |-> Day(d), value |-> Num(10 * d)] : d \in 1..(MaxRows + 1)}
    \cup {[date |-> Str("n/a"), value |-> Num(5)], [date |-> Day(1), value |-> Str("n/a")]}

SeriesTables == UNION {[1..n -> SeriesRows] : n \in 1..MaxRows}

SeriesData(rows) == [n \in {RightName} |-> LoadedDataSet(n, rows)]

ForecastCalls ==
    {ForecastCall(RightName, "date", "value", periods, "daily") : periods \in {1, 2}}

NextForecast ==
    \/ \E rows \in SeriesTables : HandleSendMessageWith("show balances", SeriesData(rows))
    \/ \E outcome \in {ClearPayload} : StrategistResponds(outcome)
    \/ \E call \in ForecastCalls : ModelResponds(NoText, <<call>>, MaxModelTurns)
    \/ \E image \in {"jpeg"} : ExecuteTool(image)

SpecForecast == Init /\ [][NextForecast]_vars

(* Calls that fail for each reason a tool has, among calls that succeed.   *)
FailureCalls ==
    {FilterCall(BaseName), FilterCall(StepName(2)), RenderCall(BaseName),
     RenderCall(StepName(1)), UnknownCall,
     JoinCall(BaseName, BaseName, "currency", "currency", "cross"),
     JoinCall(BaseName, RightName, "currency", "currency", "inner"),
     ForecastCall(BaseName, "date", "value", 1, "daily")}

NextFailures ==
    \/ \E m \in {"show balances"} : HandleSendMessage(m)
    \/ \E outcome \in {ClearPayload} : StrategistResponds(outcome)
    \/ \E call \in FailureCalls : ModelResponds(NoText, <<call>>, MaxModelTurns)
    \/ ModelResponds(AnswerText, <<>>, MaxModelTurns)
    \/ \E image \in {"jpeg"} : ExecuteTool(image)
    \/ \E outcome \in {ReviewApprove}, image \in {"jpeg"} : ReviewerResponds(outcome, image)

SpecFailures == Init /\ [][NextFailures]_vars

(* Saving datasets, failing calls and resets in any order.                 *)
StoreCalls ==
    {FilterCall(ds) : ds \in DatasetNames} \cup {UnknownCall}

NextStore ==
    \/ \E m \in {"show balances"} : HandleSendMessage(m)
    \/ HandleReset
    \/ \E outcome \in {ClearPayload} : StrategistResponds(outcome)
    \/ \E call \in StoreCalls : ModelResponds(NoText, <<call>>, MaxModelTurns)
    \/ ModelResponds(AnswerText, <<>>, MaxModelTurns)
    \/ \E image \in {"jpeg"} : ExecuteTool(image)
    \/ \E image \in {"jpeg"} : DetachedResumes(image)

SpecStore == Init /\ [][NextStore]_vars

(* Resets after datasets were saved and charts registered, also while a    *)
(* run awaits.                                                             *)
RestartCalls == {FilterCall(BaseName), FilterCall(StepName(1)), RenderCall(BaseName)}

NextRestart ==
    \/ \E m \in {"show balances"} : HandleSendMessage(m)
    \/ HandleReset
    \/ \E outcome \in {ClearPayload} : StrategistResponds(outcome)
    \/ \E call \in RestartCalls : ModelResponds(NoText, <<call>>, MaxModelTurns)
    \/ ModelResponds(AnswerText, <<>>, MaxModelTurns)
    \/ \E image \in {"jpeg"} : ExecuteTool(image)
    \/ \E image \in {"jpeg"} : DetachedResumes(image)

SpecRestart == Init /\ [][NextRestart]_vars

-----------------------------------------------------------------------------
(* Properties *)

Range(f) == {f[i] : i \in DOMAIN f}

Last(w) == w[Len(w)]

RunReturned == pc = "idle" /\ lastResult = "completed"

(* The turn ceiling: a run sends at most MAX_TURNS messages to the         *)
(* function-calling model; every pending await belongs to a turn below the *)
(* ceiling; a run that ends with turn = MAX_TURNS has emitted the          *)
(* step-limit message as its only final answer, and no run that ends       *)
(* earlier emits it.                                                       *)
C1_TurnCeiling ==
    /\ sent <= MAX_TURNS
    /\ turn <= MAX_TURNS
    /\ pc \in {"model", "executing", "reviewing"} => (turn < MAX_TURNS /\ sent = turn + 1)
    /\ (RunReturned /\ turn = MAX_TURNS) => finalAnswers = <<STEP_LIMIT_MSG>>
    /\ (RunReturned /\ turn < MAX_TURNS) =>
            (finalAnswers # <<>> /\ STEP_LIMIT_MSG \notin Range(finalAnswers))

PhaseRank(p) == IF p = "model" THEN 0 ELSE 1

(* Progress: every step that stays inside the loop of a run moves to a     *)
(* later turn, or from the await of the model to the tool block or the     *)
(* review of the same turn, or to a later tool call of the same response.  *)
C1_Progress ==
    (pc \in {"model", "executing", "reviewing"} /\ pc' \in {"model", "executing", "reviewing"}) =>
        \/ turn' > turn
        \/ turn' = turn /\ PhaseRank(pc') > PhaseRank(pc)
        \/ /\ turn' = turn
           /\ pc = "executing" /\ pc' = "executing"
           /\ stepIdx' > stepIdx /\ stepIdx' <= Len(newSteps')
           /\ Len(newSteps') <= MaxCallsPerTurn

(* C1: whatever the model, the tools and the Reviewer answer, a run sends  *)
(* at most MAX_TURNS (200) messages to the function-calling model and      *)
(* every step inside its loop makes progress towards the ceiling, so the   *)
(* run returns; a run that reaches the ceiling emits the step-limit        *)
(* message as its final answer, and only such a run does.                  *)
C1_Terminates == []C1_TurnCeiling /\ [][C1_Progress]_vars

C1_Witness ==
    RunReturned /\ sent = MAX_TURNS /\ turn = MAX_TURNS /\ finalAnswers = <<STEP_LIMIT_MSG>>

(* C2: the tool-error final message is emitted, and the run left, exactly  *)
(* when the last two tool executions of the run both failed; after a       *)
(* successful execution the consecutive-error counter is zero; a failure   *)
(* that is not the second in a row makes the next message the              *)
(* self-correction instruction (sent unless the turn ceiling is reached).  *)
C2_ConsecutiveErrors ==
    /\ (TOOL_ERROR_MSG \in Range(finalAnswers)) <=> (toolWindow = <<"F", "F">>)
    /\ toolWindow = <<"F", "F">> => (RunReturned /\ finalAnswers = <<TOOL_ERROR_MSG>>)
    /\ (toolWindow # <<>> /\ Last(toolWindow) = "S") => consecutiveErrors = 0
    /\ (lastEvent = ToolEvent(FALSE) /\ toolWindow # <<"F", "F">>) =>
            /\ currentMessage.kind = "self_correction"
            /\ (pc = "model" /\ finalAnswers = <<>>) \/ turn = MAX_TURNS

C2_Witness ==
    /\ RunReturned
    /\ toolWindow = <<"F", "F">>
    /\ finalAnswers = <<TOOL_ERROR_MSG>>
    /\ currentMessage.kind = "self_correction"

C2_WitnessReset ==
    pc = "model" /\ toolWindow = <<"S", "F">> /\ lastEvent = ToolEvent(FALSE)

(* A candidate final answer: text, no tool calls, no marker, neither short *)
(* nor generic.                                                            *)
IsCandidate(e) ==
    /\ e.src = "model"
    /\ e.ncalls = 0
    /\ Truthy(e.text)
    /\ ~e.text.marker
    /\ e.text.len >= ShortTextLimit
    /\ ~e.text.generic

(* C3 as stated: every candidate final answer is passed to the Reviewer    *)
(* before any final answer is emitted, with or without an artifact.        *)
C3_Original ==
    IsCandidate(lastEvent) => (pc = "reviewing" /\ finalAnswers = <<>>)

(* C3 amended: a candidate final answer is passed to the Reviewer before   *)
(* any final answer is emitted when an artifact was generated in the run;  *)
(* when none was, it is emitted as the final answer without review.        *)
C3_ReviewOnlyWithArtifact ==
    IsCandidate(lastEvent) =>
        IF artifactsGenerated > 0
        THEN pc = "reviewing" /\ finalAnswers = <<>> /\ reviewStep = "pending"
        ELSE RunReturned /\ finalAnswers = <<lastEvent.text>> /\ reviewStep = "none"

C3_Witness ==
    IsCandidate(lastEvent) /\ artifactsGenerated > 0 /\ pc = "reviewing"

C3_WitnessUnreviewed ==
    IsCandidate(lastEvent) /\ artifactsGenerated = 0 /\ RunReturned
        /\ finalAnswers = <<AnswerText>>

(* The Reviewer answered last *)
Reviewed == lastEvent.src = "reviewer"

SomeUnreviewed == \E i \in 1..Len(artifacts) : ~artifacts[i].isReviewed

AllReviewed == \A i \in 1..Len(artifacts) : artifacts[i].isReviewed

ApprovedBy(outcome) == outcome.failed \/ (~outcome.isNull /\ outcome.decision = "approve")

(* C4 as stated: after the Reviewer answered, a final answer is emitted    *)
(* only when its decision is approve (or the fallback approve), and a      *)
(* revise decision emits none, leaves artifacts unreviewed, records the    *)
(* warning step and makes the revision instruction the next message.       *)
C4_Original ==
    Reviewed =>
        /\ finalAnswers # <<>> => ApprovedBy(lastEvent.review)
        /\ (~lastEvent.review.failed /\ lastEvent.review.decision = "revise") =>
                /\ finalAnswers = <<>>
                /\ SomeUnreviewed
                /\ reviewStep = "warning"
                /\ currentMessage.kind = "revision"

(* The revise path of runChat is taken: decision revise with feedback *)
ActionableRevise(outcome) ==
    ~outcome.failed /\ ~outcome.isNull /\ outcome.decision = "revise" /\ outcome.feedback # ""

(* C4 amended: a final answer is emitted and the artifacts are marked      *)
(* reviewed only when the Reviewer's answer is not a revise decision with  *)
(* non-empty feedback; a revise decision with non-empty feedback emits no  *)
(* final answer of its own, leaves the artifacts unreviewed, records the   *)
(* warning step and makes the revision instruction, quoting the feedback,  *)
(* the next message (sent unless the turn ceiling is reached); any other   *)
(* answer that is an object, a revise decision without feedback included,  *)
(* emits the final answer and marks every artifact reviewed.               *)

C4_ReviseNeedsFeedback ==
    Reviewed =>
        /\ (RunReturned /\ turn < MAX_TURNS) => ~ActionableRevise(lastEvent.review)
        /\ AllReviewed => ~ActionableRevise(lastEvent.review)
        /\ ActionableRevise(lastEvent.review) =>
                /\ SomeUnreviewed
                /\ reviewStep = "warning"
                /\ currentMessage = RevisionMsg(lastEvent.review.feedback)
                /\ (pc = "model" /\ finalAnswers = <<>>)
                       \/ (turn = MAX_TURNS /\ finalAnswers = <<STEP_LIMIT_MSG>>)
        /\ (~ActionableRevise(lastEvent.review) /\ ~lastEvent.review.isNull) =>
                (RunReturned /\ Len(finalAnswers) = 1 /\ AllReviewed)

C4_Witness ==
    Reviewed /\ lastEvent.review = ReviewRevise /\ pc = "model"
        /\ reviewStep = "warning" /\ currentMessage.kind = "revision"

C4_WitnessNoFeedback ==
    Reviewed /\ lastEvent.review = ReviewReviseNoFeedback /\ RunReturned
        /\ finalAnswers # <<>> /\ AllReviewed /\ artifacts # <<>>

(* C5: when the Reviewer's answer takes the approve path, at the return of *)
(* the run every artifact of the registry is reviewed, the list given to   *)
(* onReviewCompleted (the App's artifacts) equals the registry, every      *)
(* report named by a reviewer revision carries the revised summary, and    *)
(* the final answer is the reviewer's revised text when that is non-empty  *)
(* and the draft otherwise.                                                *)
C5_ApproveMarksAll ==
    (Reviewed /\ RunReturned /\ turn < MAX_TURNS) =>
        /\ AllReviewed
        /\ appArtifacts = artifacts
        /\ \A i \in 1..Len(artifacts) :
             \A k \in 1..Len(lastEvent.review.revisedArtifacts) :
                LET update == lastEvent.review.revisedArtifacts[k]
                IN  (artifacts[i].title = update.title /\ artifacts[i].type = "report"
                        /\ update.summary # NoSummary /\ ~lastEvent.review.failed)
                    => artifacts[i].summary = update.summary
        /\ finalAnswers =
             << IF ~lastEvent.review.failed /\ lastEvent.review.revisedText # NoText
                THEN lastEvent.review.revisedText
                ELSE responseText >>

C5_Witness ==
    /\ Reviewed /\ RunReturned
    /\ lastEvent.review = ReviewApproveRevised
    /\ finalAnswers = <<RevisedText>>
    /\ \E i \in 1..Len(artifacts) :
          /\ artifacts[i].type = "report"
          /\ artifacts[i].summary = "revised summary"
          /\ artifacts[i].isReviewed
    /\ Len(artifacts) = 2

(* C6 as stated: no outcome of a Strategist or Reviewer call makes runChat *)
(* throw to its caller.                                                    *)
C6_NeverThrows == lastResult # "thrown"

C6_Witness == lastResult = "thrown" /\ sent = 0 /\ lastEvent = StrategistEvent(TRUE)

(* The delays slept before attempt n: 1000 ms, 2000 ms, ... *)
ExpectedWaits(n) == [k \in 1..(n - 1) |-> 1000 * k]

C7_AttemptsBounded ==
    /\ attempt <= 3
    /\ Len(waits) <= 2
    /\ pc = "strategist" => (attempt >= 1 /\ waits = ExpectedWaits(attempt))
    /\ (lastEvent.src = "strategist" /\ lastEvent.ok) => pc # "strategist"

C7_FallbackStep ==
    (pc = "strategist" /\ lastEvent'.src = "strategist" /\ ~lastEvent'.ok) =>
        IF attempt < 3
        THEN /\ pc' = "strategist"
             /\ attempt' = attempt + 1
             /\ waits' = Append(waits, 1000 * attempt)
        ELSE /\ waits = <<1000, 2000>>
             /\ pc' = "model"
             /\ sent' = 1
             /\ analysisInstruction' = FALLBACK_INSTRUCTION
             /\ lastResult' = "running"
             /\ ~clarificationState'.open

(* C7: callStrategist makes at most 3 attempts; before attempt n it has    *)
(* slept 1000 ms, 2000 ms, ... 1000 * (n - 1) ms, one delay after each     *)
(* earlier attempt; it returns at the first response that parses; when the *)
(* last attempt fails it returns without another wait, the request counts  *)
(* as clear, the instruction is the generic one and the first message goes *)
(* to the function-calling model instead of clarification_needed.          *)
C7_BoundedRetry == []C7_AttemptsBounded /\ [][C7_FallbackStep]_vars

C7_Witness ==
    /\ pc = "model"
    /\ sent = 1
    /\ lastEvent = StrategistEvent(FALSE)
    /\ analysisInstruction = FALLBACK_INSTRUCTION

IsPrefix(a, b) == Len(a) <= Len(b) /\ SubSeq(b, 1, Len(a)) = a

(* A run that ended at the Strategist's answer did nothing else; a run     *)
(* that returned clarification_needed ended there and left a state open.   *)
C8_NoWork ==
    /\ (pc = "idle" /\ lastEvent.src = "strategist") =>
            /\ sent = 0
            /\ finalAnswers = <<>>
            /\ toolWindow = <<>>
            /\ respWindow = <<>>
            /\ artifactsGenerated = 0
            /\ lastResult \in {"clarification_needed", "thrown"}
    /\ lastResult = "clarification_needed" =>
            /\ pc = "idle"
            /\ lastEvent = StrategistEvent(TRUE)
            /\ clarificationState.open

C8_ReturnStep ==
    (lastResult' = "clarification_needed" /\ lastResult # "clarification_needed") =>
        LET old == clarificationState
            new == clarificationState'
        IN  /\ Last(new.history).role = "model"
            /\ IF old.open
               THEN /\ new.originalQuery = old.originalQuery
                    /\ IsPrefix(old.history, new.history)
                    /\ Len(new.history) = Len(old.history) + 2
                    /\ new.history[Len(old.history) + 1] = HistoryEntry("user", message)
               ELSE /\ new.originalQuery = message
                    /\ Len(new.history) = 1

(* C8: a run that returns clarification_needed has sent no message to the  *)
(* function-calling model, executed no tool and emitted no final answer;   *)
(* the state it returns keeps the originalQuery of the open state and      *)
(* extends its history by the user's message and the question, or, when    *)
(* no state was open, has the message as originalQuery and the question as *)
(* its history.                                                            *)
C8_ClarificationKept == []C8_NoWork /\ [][C8_ReturnStep]_vars

C8_Witness ==
    /\ lastResult = "clarification_needed"
    /\ clarificationState.open
    /\ Len(clarificationState.history) = 3
    /\ clarificationState.originalQuery # message

NeedsDataset(call) ==
    call.name \in {"get_dataset_schema", "filter_data", "render_bar_chart"}

C9_InOrder ==
    pc = "executing" =>
        /\ stepIdx \in 1..Len(newSteps)
        /\ Len(toolExecutionParts) = stepIdx - 1
        /\ \A i \in 1..Len(newSteps) :
              newSteps[i].status = IF i < stepIdx THEN "completed" ELSE "pending"
        /\ \A i \in 1..(stepIdx - 1) :
              /\ toolExecutionParts[i].name = newSteps[i].toolCall.name
              /\ toolExecutionParts[i].response.new_dataset_name # "" =>
                    toolExecutionParts[i].response.new_dataset_name
                        \in DOMAIN intermediateData
        /\ (stepIdx > 1 /\ ProducesArtifact(newSteps[stepIdx - 1].toolCall)) =>
              /\ artifacts # <<>>
              /\ appArtifacts # <<>>
              /\ Last(artifacts) = Last(appArtifacts)
              /\ Last(artifacts).type \in {"bar_chart", "report"}

C9_NextCallSeesDataset ==
    (/\ pc = "executing"
     /\ stepIdx > 1
     /\ NeedsDataset(newSteps[stepIdx].toolCall)
     /\ newSteps[stepIdx].toolCall.dataset_name =
            toolExecutionParts[stepIdx - 1].response.new_dataset_name
     /\ lastEvent' # lastEvent)
    => /\ lastEvent' = ToolEvent(TRUE)
       /\ newSteps'[stepIdx].status = "completed"

(* C9: the tool calls of a response are executed one at a time in the      *)
(* order returned: the steps before the loop position are completed and    *)
(* have their results recorded in order, the others are pending; the       *)
(* dataset a completed call reports as new is in the store, and an         *)
(* artifact-producing call has its artifact in the registry, before the    *)
(* next call starts; a call that names the dataset reported by the call    *)
(* before it does not fail.                                                *)
C9_Sequential == []C9_InOrder /\ [][C9_NextCallSeesDataset]_vars

C9_Witness ==
    /\ Len(newSteps) = 2
    /\ newSteps[1].toolCall.name = "filter_data"
    /\ newSteps[2].toolCall.name = "filter_data"
    /\ newSteps[2].toolCall.dataset_name = StepName(1)
    /\ newSteps[2].status = "completed"
    /\ currentMessage.kind = "tool_results"
    /\ Len(currentMessage.parts) = 2
    /\ currentMessage.parts[1].response.new_dataset_name = StepName(1)
    /\ currentMessage.parts[2].response.new_dataset_name = StepName(2)
    /\ DOMAIN intermediateData = {StepName(1), StepName(2)}

(* C10: the no-response message is emitted, and the run left, exactly when *)
(* the last two model responses were both empty; after one empty response  *)
(* the message in flight is the nudge (sent unless the turn ceiling is     *)
(* reached), and the nudge is in flight only after an empty response;      *)
(* after a non-empty response the empty-response counter is zero.          *)
C10_EmptyResponses ==
    /\ respWindow = <<"E", "E">> <=> NO_RESPONSE_MSG \in Range(finalAnswers)
    /\ respWindow = <<"E", "E">> => (RunReturned /\ finalAnswers = <<NO_RESPONSE_MSG>>)
    /\ (lastEvent = ModelEvent(NoText, 0) /\ respWindow # <<"E", "E">>) =>
            /\ currentMessage = EmptyNudgeMsg
            /\ emptyResponseCount = 1
            /\ (pc = "model" /\ finalAnswers = <<>>) \/ turn = MAX_TURNS
    /\ (pc = "model" /\ currentMessage = EmptyNudgeMsg) => lastEvent = ModelEvent(NoText, 0)
    /\ (respWindow # <<>> /\ Last(respWindow) = "N") => emptyResponseCount = 0

C10_Witness ==
    RunReturned /\ respWindow = <<"E", "E">> /\ finalAnswers = <<NO_RESPONSE_MSG>>
        /\ currentMessage = EmptyNudgeMsg

C10_WitnessReset ==
    pc = "model" /\ respWindow = <<"N", "E">> /\ currentMessage = EmptyNudgeMsg
        /\ emptyResponseCount = 1

RunsInFlight == (IF pc = "idle" THEN 0 ELSE 1) + Len(detached)

(* C11 as stated: at most one run of runChat is in flight at any time,     *)
(* whatever the order of the user's send-message and reset actions.        *)
C11_OneRunInFlight == RunsInFlight <= 1

C11_Witness ==
    /\ pc = "executing"
    /\ detached # <<>>
    /\ Head(detached).at = "executing"

-----------------------------------------------------------------------------
(* The title a producing tool gives its artifact before it is stored *)
ProducedTitle(call) ==
    IF call.name = "generate_report" THEN call.title
    ELSE PrefixedTitle("[" \o (CHOOSE k \in ChartKinds : call.name = RenderName(k)) \o "]",
                       call.title)

Titles(arts) == {arts[i].title : i \in 1..Len(arts)}

C12_DistinctTitles ==
    \A i, j \in 1..Len(artifacts) : i # j => artifacts[i].title # artifacts[j].title

C12_FirstFreeTitle ==
    [][(pc = "executing" /\ Len(artifacts') = Len(artifacts) + 1) =>
          LET title == ProducedTitle(newSteps[stepIdx].toolCall)
              stored == Last(artifacts').title
          IN  /\ SubSeq(artifacts', 1, Len(artifacts)) = artifacts
              /\ IF title \notin Titles(artifacts)
                 THEN stored = title
                 ELSE \E n \in 2..(Len(artifacts) + 2) :
                         /\ stored = Append(title, SuffixToken(n))
                         /\ stored \notin Titles(artifacts)
                         /\ \A m \in 2..(n - 1) :
                                Append(title, SuffixToken(m)) \in Titles(artifacts)
              /\ appArtifacts' = Append(appArtifacts, Last(artifacts'))]_vars

(* C12: the titles in the Artifact Registry are pairwise distinct; an      *)
(* artifact whose title is taken is stored as "<title> (n)" for the first  *)
(* n >= 2 that is free, and the artifact handed back to the caller is the  *)
(* stored one.                                                             *)
C12_UniqueTitles == []C12_DistinctTitles /\ C12_FirstFreeTitle

(* the title was taken, and so was "<title> (2)" *)
C12_Witness ==
    /\ Len(artifacts) = 3
    /\ artifacts[3].title = Append(TaggedSales, SuffixToken(3))
    /\ appArtifacts # <<>> /\ Last(appArtifacts) = artifacts[3]

-----------------------------------------------------------------------------
IsReset ==
    intermediateData' = EmptyStore /\ stepCounter' = 0

IsSave ==
    /\ stepCounter' = stepCounter + 1
    /\ StepName(stepCounter') \notin DOMAIN intermediateData
    /\ DOMAIN intermediateData' = DOMAIN intermediateData \cup {StepName(stepCounter')}
    /\ intermediateData'[StepName(stepCounter')].name = StepName(stepCounter')
    /\ \A n \in DOMAIN intermediateData : intermediateData'[n] = intermediateData[n]

C13_NamesInSequence ==
    /\ DOMAIN intermediateData = {StepName(n) : n \in 1..stepCounter}
    /\ DOMAIN intermediateData \cap DOMAIN dataContext = {}
    /\ dataContext \in {EmptyStore, DataSets}

C13_SaveOrReset ==
    /\ <<intermediateData, stepCounter>>' # <<intermediateData, stepCounter>> =>
            IsSave \/ IsReset
    /\ (/\ pc = "executing"
        /\ ProducesDataset(newSteps[stepIdx].toolCall)
        /\ newSteps' = [newSteps EXCEPT ![stepIdx].status = "completed"]
        /\ newSteps' # newSteps) => IsSave

-----------------------------------------------------------------------------
(* the call ExecuteTool completes in this step *)
Completes(name) ==
    /\ pc = "executing"
    /\ newSteps[stepIdx].toolCall.name = name
    /\ newSteps[stepIdx].status = "pending"
    /\ newSteps' = [newSteps EXCEPT ![stepIdx].status = "completed"]

Columns(data) == UNION {DOMAIN data[i] : i \in 1..Len(data)}

C17_Counts ==
    Completes("join_datasets") =>
        LET call == newSteps[stepIdx].toolCall
            L == getDataset(intermediateData, dataContext, call.dataset_name).data
            R == getDataset(intermediateData, dataContext, call.right_dataset_name).data
            out == intermediateData'[StepName(stepCounter')].data
            leftOn == call.left_on_column
            rightOn == call.right_on_column
            Equal(i, j) == Get(L[i], leftOn) = Get(R[j], rightOn)
            matches(i) == Cardinality({j \in 1..Len(R) : Equal(i, j)})
            M == Cardinality({p \in (1..Len(L)) \X (1..Len(R)) : Equal(p[1], p[2])})
            unmatchedLeft == {i \in 1..Len(L) : \A j \in 1..Len(R) : ~Equal(i, j)}
            unmatchedRight == {j \in 1..Len(R) : \A i \in 1..Len(L) : ~Equal(i, j)}
            UL == Cardinality(unmatchedLeft)
            UR == Cardinality(unmatchedRight)
            RECURSIVE Before(_)
            Before(i) ==
                IF i = 1 THEN 0
                ELSE Before(i - 1) + (IF matches(i - 1) > 0 THEN matches(i - 1) ELSE 1)
            rightName(c) == IF c \in Columns(L) THEN c \o "_right" ELSE c
        IN  /\ call.join_type = "left" => Len(out) = M + UL
            /\ call.join_type = "full" => Len(out) = M + UL + UR
            /\ call.join_type \in {"left", "full"} =>
                  \A i \in unmatchedLeft :
                     \A c \in Columns(R) \ {rightOn} :
                        /\ rightName(c) \in DOMAIN out[Before(i) + 1]
                        /\ out[Before(i) + 1][rightName(c)] = Null
            /\ call.join_type = "full" =>
                  \A k \in 1..UR :
                     \A c \in Columns(L) \ {leftOn} :
                        /\ c \in DOMAIN out[M + UL + k]
                        /\ out[M + UL + k][c] = Null

(* C17 as stated: with M the pairs of a left and a right row with equal join keys,   *)
(* UL the left rows and UR the right rows whose key matches no row of the  *)
(* other side, a left join outputs M + UL rows and a full join             *)
(* M + UL + UR rows, and a row emitted for an unmatched row has null in    *)
(* every non-key column of the other side.                                 *)
C17_JoinRowCounts == [][C17_Counts]_vars

(* a full join whose left dataset is an earlier join result: the row for  *)
(* the unmatched right row holds the right row's name in the left        *)
(* dataset's column name_right                                           *)
C17_Witness ==
    /\ pc = "model"
    /\ newSteps # <<>>
    /\ Last(newSteps).status = "completed"
    /\ Last(newSteps).toolCall.name = "join_datasets"
    /\ Last(newSteps).toolCall.join_type = "full"
    /\ Last(newSteps).toolCall.dataset_name = StepName(1)
    /\ stepCounter = 2
    /\ intermediateData[StepName(1)].columnNames = <<"id", "name", "name_right">>
    /\ LET out == intermediateData[StepName(2)].data
       IN  /\ Len(out) = 2
           /\ out[1] = [id |-> Str("b"), name |-> Str("l"), name_right |-> Null]
           /\ out[2] = [id |-> Str("a"), name |-> Null, name_right |-> Str("r")]

-----------------------------------------------------------------------------
(* the rows of the series that hold a date and a number *)
Parseable(data) ==
    {i \in 1..Len(data) :
        /\ "day" \in DOMAIN Get(data[i], "date")
        /\ IsNum(Get(data[i], "value"))}

C18_Step ==
    (/\ pc = "executing"
     /\ newSteps[stepIdx].toolCall.name = "forecast_time_series"
     /\ newSteps' # newSteps) =>
        LET call == newSteps[stepIdx].toolCall
            data == getDataset(intermediateData, dataContext, call.dataset_name).data
            n == Cardinality(Parseable(data))
        IN  /\ n < 2 =>
                  /\ newSteps'[stepIdx].status = "error"
                  /\ newSteps'[stepIdx].error = InsufficientData
                  /\ UNCHANGED <<intermediateData, stepCounter>>
            /\ (n = 2 /\ call.forecast_periods = 1) =>
                  /\ newSteps'[stepIdx].status = "completed"
                  /\ LET out == intermediateData'[StepName(stepCounter')].data
                         row == out[Len(out)]
                     IN  /\ Len(out) = Len(data) + 1
                         /\ IsNum(row.forecast)
                         /\ row.forecast_upper = row.forecast
                         /\ row.forecast_lower = row.forecast

(* C18 as stated: forecast_time_series fails with the insufficient-data    *)
(* error and creates no dataset when fewer than two rows hold a date and a *)
(* value that can be parsed; with exactly two such rows and one forecast   *)
(* period the forecast row has forecast_upper = forecast_lower = forecast, *)
(* a number.                                                               *)
C18_ForecastOfTwoPoints == [][C18_Step]_vars

(* the forecast of (day 1, 10), (day 2, 20) for one period: 30 on day 3,   *)
(* with bounds that are not numbers                                        *)
C18_Witness ==
    /\ pc = "model"
    /\ newSteps # <<>>
    /\ Last(newSteps).status = "completed"
    /\ Last(newSteps).toolCall.name = "forecast_time_series"
    /\ Last(newSteps).toolCall.forecast_periods = 1
    /\ stepCounter = 1
    /\ dataContext[RightName].data =
            <<[date |-> Day(1), value |-> Num(10)], [date |-> Day(2), value |-> Num(20)]>>
    /\ LET out == intermediateData[StepName(1)].data
       IN  /\ Len(out) = 3
           /\ out[3].date = Day(3)
           /\ out[3].forecast = Num(30)
           /\ out[3].forecast_upper = NaN
           /\ out[3].forecast_lower = NaN

(* a series with one point: the call failed and saved nothing *)
C18_WitnessOnePoint ==
    /\ pc = "model"
    /\ newSteps # <<>>
    /\ Last(newSteps).status = "error"
    /\ Last(newSteps).error = InsufficientData
    /\ Len(dataContext[RightName].data) = 2
    /\ Cardinality(Parseable(dataContext[RightName].data)) = 1
    /\ stepCounter = 0

-----------------------------------------------------------------------------
Missing(name) == name \notin DOMAIN intermediateData \cup DOMAIN dataContext

(* the error a call must fail with, "" when it must not fail *)
ExpectedError(call) ==
    CASE call.name = "no_such_tool" -> ToolNotFound
      [] call.name = "join_datasets" ->
            IF call.join_type \notin {"inner", "left", "right", "full"}
            THEN JoinNotSupported
            ELSE IF Missing(call.dataset_name) \/ Missing(call.right_dataset_name)
            THEN DatasetNotFound ELSE ""
      [] call.name = "forecast_time_series" ->
            IF Missing(call.dataset_name) THEN DatasetNotFound
            ELSE IF Cardinality(Parseable(getDataset(intermediateData, dataContext,
                                                     call.dataset_name).data)) < 2
            THEN InsufficientData ELSE ""
      [] OTHER -> IF Missing(call.dataset_name) THEN DatasetNotFound ELSE ""

C14_Step ==
    (pc = "executing" /\ newSteps' # newSteps) =>
        LET call == newSteps[stepIdx].toolCall
            error == ExpectedError(call)
        IN  /\ newSteps'[stepIdx].status = IF error = "" THEN "completed" ELSE "error"
            /\ error # "" =>
                  /\ newSteps'[stepIdx].error = error
                  /\ consecutiveErrors' = consecutiveErrors + 1
                  /\ lastEvent' = ToolEvent(FALSE)
                  /\ UNCHANGED <<intermediateData, stepCounter, artifacts, appArtifacts,
                                 dataContext>>
                  /\ IF consecutiveErrors' >= MAX_CONSECUTIVE_ERRORS
                     THEN pc' = "idle" /\ finalAnswers' = <<TOOL_ERROR_MSG>>
                     ELSE /\ pc' = "model"
                          /\ currentMessage' = SelfCorrectionMsg(call.name, error)

(* C14: a tool call that fails (unknown tool, missing dataset, unsupported *)
(* join type, too few points to forecast) reaches the loop with the error  *)
(* the tool raised, counts as one tool failure, and leaves the Dataset     *)
(* Store, the step counter and the Artifact Registry as they were.         *)
C14_FailuresLeaveNoTrace == [][C14_Step]_vars

(* a call failed with a dataset in the store and an artifact in the        *)
(* registry, and the model was told the error                              *)
C14_Witness ==
    /\ pc = "model"
    /\ newSteps # <<>>
    /\ Last(newSteps).status = "error"
    /\ Last(newSteps).error = InsufficientData
    /\ currentMessage = SelfCorrectionMsg("forecast_time_series", InsufficientData)
    /\ consecutiveErrors = 1
    /\ stepCounter = 1
    /\ artifacts # <<>>

-----------------------------------------------------------------------------
(* the last artifact of arts at one of the positions hits, as a sequence  *)
(* of zero or one artifact                                                 *)
LastAt(arts, hits) ==
    IF hits = {} THEN <<>>
    ELSE <<arts[CHOOSE i \in hits : \A j \in hits : j <= i]>>

(* exact match first, the tag-stripping fallback only without one *)
ExactFirst(arts, reqTitle) ==
    IF \E i \in 1..Len(arts) : arts[i].title = reqTitle
    THEN LastAt(arts, {i \in 1..Len(arts) : arts[i].title = reqTitle})
    ELSE LastAt(arts, {i \in 1..Len(arts) : TitleMatches(arts[i].title, reqTitle)})

ReportMade ==
    /\ pc = "executing"
    /\ newSteps[stepIdx].toolCall.name = "generate_report"
    /\ newSteps'[stepIdx].status = "completed"
    /\ Len(artifacts') = Len(artifacts) + 1

C15_Step ==
    ReportMade =>
        LET titles == newSteps[stepIdx].toolCall.artifact_titles
            parts == Last(artifacts').artifacts
        IN  {parts[i] : i \in 1..Len(parts)} =
                UNION {LET wanted == ExactFirst(artifacts, titles[k])
                       IN  {wanted[i] : i \in 1..Len(wanted)} : k \in 1..Len(titles)}

(* C15 as stated: generate_report resolves a requested title to the        *)
(* artifact whose title equals it whenever the registry has one, falls     *)
(* back to stripping a leading type tag only without an exact match, and   *)
(* takes the most recently inserted of several candidates.                 *)
C15_ExactMatchFirst == [][C15_Step]_vars

(* a report asked for "Sales" while the registry held a report titled      *)
(* "Sales" and, newer, the chart "[bar_chart] Sales": it holds the chart   *)
C15_Witness ==
    /\ Len(artifacts) = 3
    /\ artifacts[1].title = SalesTitle
    /\ artifacts[2].title = TaggedSales
    /\ artifacts[3].type = "report"
    /\ artifacts[3].artifacts = <<artifacts[2]>>

-----------------------------------------------------------------------------
(* the artifact the report resolves a requested title to, as a sequence of *)
(* zero or one artifact                                                    *)
Resolved(arts, reqTitle) ==
    LastAt(arts, {i \in 1..Len(arts) : TitleMatches(arts[i].title, reqTitle)})

(* position in titles of the first title resolved to art *)
FirstRequest(arts, titles, art) ==
    CHOOSE k \in 1..Len(titles) :
        /\ Resolved(arts, titles[k]) = <<art>>
        /\ \A j \in 1..(k - 1) : Resolved(arts, titles[j]) # <<art>>

C16_Step ==
    (pc = "executing" /\ newSteps' # newSteps
        /\ newSteps[stepIdx].toolCall.name = "generate_report") =>
        LET titles == newSteps[stepIdx].toolCall.artifact_titles
            parts == Last(artifacts').artifacts
        IN  /\ ReportMade
            /\ Last(artifacts').type = "report"
            /\ \A i, j \in 1..Len(parts) : i # j => parts[i] # parts[j]
            /\ {parts[i] : i \in 1..Len(parts)} =
                   {art \in {artifacts[i] : i \in 1..Len(artifacts)} :
                       \E k \in 1..Len(titles) : Resolved(artifacts, titles[k]) = <<art>>}
            /\ \A i, j \in 1..Len(parts) :
                   i < j => FirstRequest(artifacts, titles, parts[i])
                              < FirstRequest(artifacts, titles, parts[j])

(* C16: the artifact list of a generated report holds each resolved        *)
(* artifact once, in the order of its first occurrence in the requested    *)
(* titles; titles that match nothing are left out without an error; a      *)
(* tagged title and its untagged form that resolve to the one tagged       *)
(* artifact include it once.                                               *)
C16_ResolvedOnceInOrder == [][C16_Step]_vars

(* a report that asked for "[bar_chart] Sales" and "Sales" with only the   *)
(* tagged chart in the registry                                            *)
C16_Witness ==
    /\ Len(artifacts) = 2
    /\ artifacts[1].title = TaggedSales
    /\ artifacts[2].type = "report"
    /\ artifacts[2].artifacts = <<artifacts[1]>>
    /\ newSteps # <<>>
    /\ Last(newSteps).status = "completed"
    /\ Last(newSteps).toolCall.artifact_titles = <<TaggedSales, SalesTitle>>

(* a report of two artifacts in the order they were asked for, after a     *)
(* title that matched nothing                                              *)
C16_WitnessOrder ==
    /\ Len(artifacts) = 3
    /\ artifacts[3].type = "report"
    /\ Len(artifacts[3].artifacts) = 2

-----------------------------------------------------------------------------
(* a call of one of the tools named in names has run to completion *)
Rendered(names) ==
    /\ pc = "executing"
    /\ newSteps' # newSteps
    /\ newSteps[stepIdx].toolCall.name \in names
    /\ newSteps'[stepIdx].status = "completed"

(* one artifact more in the registry, and the same one more in the         *)
(* application's list (onArtifactGenerated)                                *)
OneArtifactMore ==
    /\ Len(artifacts') = Len(artifacts) + 1
    /\ SubSeq(artifacts', 1, Len(artifacts)) = artifacts
    /\ appArtifacts' = Append(appArtifacts, Last(artifacts'))
    /\ artifactsGenerated' = artifactsGenerated + 1
    /\ "render_" \o Last(artifacts').type = newSteps[stepIdx].toolCall.name
    /\ Last(artifacts').data =
          getDataset(intermediateData, dataContext,
                     newSteps[stepIdx].toolCall.dataset_name).data

ChartTools == {RenderName(kind) : kind \in ChartKinds}

(* C19 as stated: every successful render_* call, render_table included,   *)
(* produces exactly one artifact, adds it to the Artifact Registry and     *)
(* returns it to the loop, which hands it to onArtifactGenerated.          *)
C19_EveryRenderMakesArtifact ==
    [][Rendered(ChartTools \cup {"render_table"}) => OneArtifactMore]_vars

(* C19: every successful render_bar_chart, render_pie_chart,               *)
(* render_line_chart, render_world_map, render_scatter_plot and            *)
(* render_waterfall_chart call produces exactly one artifact, adds it to   *)
(* the Artifact Registry and returns it to the loop, which hands it to     *)
(* onArtifactGenerated; a successful render_table call returns Markdown    *)
(* and produces no artifact.                                               *)
C19_ChartsMakeArtifactTableNone ==
    [][/\ Rendered(ChartTools) => OneArtifactMore
       /\ Rendered({"render_table"}) =>
             UNCHANGED <<artifacts, appArtifacts, artifactsGenerated>>]_vars

(* a waterfall chart was rendered: it is in the registry and in the        *)
(* application's list                                                      *)
C19_Witness ==
    /\ newSteps # <<>>
    /\ Last(newSteps).status = "completed"
    /\ Last(newSteps).toolCall.name = "render_waterfall_chart"
    /\ Len(artifacts) = 1
    /\ artifacts[1].type = "waterfall_chart"
    /\ artifacts[1].title = <<"[waterfall_chart]", "Sales">>
    /\ appArtifacts = artifacts
    /\ artifactsGenerated = 1

(* a table was rendered and no artifact exists *)
C19_WitnessTable ==
    /\ newSteps # <<>>
    /\ Last(newSteps).status = "completed"
    /\ Last(newSteps).toolCall.name = "render_table"
    /\ artifacts = <<>>
    /\ appArtifacts = <<>>

-----------------------------------------------------------------------------
(* C20 as stated: in every run, a render_* call is executed on a dataset   *)
(* only after a verify_visualization_data call for that dataset has been   *)
(* executed in the run.                                                    *)
C20_VerifiedBeforeRender ==
    [][Rendered(ChartTools \cup {"render_table"}) =>
          newSteps[stepIdx].toolCall.dataset_name \in verified]_vars

(* a bar chart of account_balance was rendered in a run that verified      *)
(* nothing                                                                 *)
C20_Witness ==
    /\ pc = "model"
    /\ newSteps # <<>>
    /\ Last(newSteps).status = "completed"
    /\ Last(newSteps).toolCall = ChartCall("bar_chart", SalesTitle)
    /\ verified = {}
    /\ Len(artifacts) = 1
    /\ artifacts[1].type = "bar_chart"

(* a chart rendered after its dataset was verified *)
C20_WitnessVerified ==
    /\ newSteps # <<>>
    /\ Last(newSteps).status = "completed"
    /\ Last(newSteps).toolCall.name \in ChartTools
    /\ Last(newSteps).toolCall.dataset_name \in verified

-----------------------------------------------------------------------------
(* a step of handleReset: the only step that changes the state and leaves  *)
(* every run, in flight or detached, where it is                           *)
ResetStep ==
    /\ UNCHANGED <<runVars, obsVars, detached, lastResult>>
    /\ <<appVars, execVars>>' # <<appVars, execVars>>

C21_Step ==
    ResetStep =>
        /\ intermediateData' = EmptyStore
        /\ artifacts' = <<>>
        /\ stepCounter' = 0
        /\ dataContext' = dataContext
        /\ \A n \in DOMAIN dataContext :
              /\ HasDataset(intermediateData', dataContext', n)
              /\ getDataset(intermediateData', dataContext', n) = dataContext[n]
        /\ \A n \in DOMAIN intermediateData :
              LET r == getDatasetSchema(SchemaCall(n), intermediateData', dataContext',
                                        stepCounter')
              IN  r.threw /\ r.error = DatasetNotFound
        /\ \A n \in DOMAIN dataContext :
              LET r == filterDataTool(FilterCall(n), intermediateData', dataContext',
                                      stepCounter')
              IN  /\ ~r.threw
                  /\ r.result.new_dataset_name = StepName(1)
                  /\ DOMAIN r.store = {StepName(1)}

(* C21: reset empties the intermediate Dataset Store and the Artifact      *)
(* Registry and sets the step counter to zero; the base datasets stay      *)
(* retrievable, a lookup of any former step_<n>_result fails with          *)
(* not-found, getArtifacts is empty and the next dataset saved is          *)
(* step_1_result.                                                          *)
C21_ResetClearsExecutor == [][C21_Step]_vars

(* a reset during a run that had saved a dataset and registered a chart *)
C21_Witness ==
    /\ pc = "model"
    /\ toolWindow = <<"S", "S">>
    /\ artifactsGenerated = 1
    /\ intermediateData = EmptyStore
    /\ stepCounter = 0
    /\ artifacts = <<>>
    /\ BaseName \in DOMAIN dataContext

-----------------------------------------------------------------------------
(* the model answered with a short or generic text, no tool call and no    *)
(* marker                                                                  *)
ShortReply ==
    /\ pc = "model"
    /\ lastEvent'.src = "model"
    /\ lastEvent'.ncalls = 0
    /\ Truthy(lastEvent'.text)
    /\ ~lastEvent'.text.marker
    /\ isShortOrGeneric(lastEvent'.text)

TreatedAsIncomplete ==
    /\ pc' # "reviewing"
    /\ \A i \in 1..Len(finalAnswers') : finalAnswers'[i] # lastEvent'.text
    /\ invalidResponseCount' = invalidResponseCount + 1
    /\ IF invalidResponseCount' >= MAX_INVALID_RESPONSES
       THEN /\ pc' = "idle"
            /\ lastResult' = "completed"
            /\ finalAnswers' = Append(finalAnswers, INVALID_MSG)
       ELSE /\ currentMessage' = InvalidNudgeMsg
            /\ finalAnswers' = finalAnswers \/ pc' = "idle"

(* C22 as stated: a free-text response with no tool calls and no marker    *)
(* that is shorter than 40 characters or begins with a generic             *)
(* acknowledgement is always treated as an incomplete answer: it is not    *)
(* emitted as the final answer and not sent to the Reviewer, the model is  *)
(* nudged to continue, and the run ends with the fixed message at the      *)
(* second such response in a row.                                          *)
C22_ShortTextIsIncomplete == [][ShortReply => TreatedAsIncomplete]_vars

(* the same, for responses given while no tool call of the run has         *)
(* produced an artifact                                                    *)
C22_WithoutArtifact ==
    [][(ShortReply /\ ~newArtifactGeneratedThisTurn) => TreatedAsIncomplete]_vars

(* a two-character text is before the Reviewer *)
C22_Witness ==
    /\ pc = "reviewing"
    /\ responseText = ShortText
    /\ newArtifactGeneratedThisTurn
    /\ invalidResponseCount = 0

(* the two-character text was emitted as the final answer *)
C22_WitnessEmitted ==
    /\ pc = "idle"
    /\ finalAnswers = <<ShortText>>
    /\ lastEvent.src = "reviewer"

(* the run ended with the fixed message after two short texts *)
C22_WitnessStopped ==
    /\ pc = "idle"
    /\ finalAnswers = <<INVALID_MSG>>
    /\ invalidResponseCount = MAX_INVALID_RESPONSES

-----------------------------------------------------------------------------
(* the model answered *)
ModelAnswered == pc = "model" /\ lastEvent'.src = "model"

(* C23 as stated: the tool calls of every model response are executed      *)
(* through the Dispatcher, and the marker ends the run as completed,       *)
(* without review, only for responses with text and no tool calls.         *)
C23_ToolCallsAreExecuted ==
    [][ModelAnswered =>
          /\ lastEvent'.ncalls > 0 =>
                /\ pc' = "executing"
                /\ Len(newSteps') = lastEvent'.ncalls
                /\ stepIdx' = 1
          /\ (lastEvent'.text.marker /\ pc' = "idle") => lastEvent'.ncalls = 0]_vars

(* the same for responses whose text carries no marker *)
C23_WithoutMarker ==
    [][(ModelAnswered /\ ~lastEvent'.text.marker /\ lastEvent'.ncalls > 0) =>
          /\ pc' = "executing"
          /\ Len(newSteps') = lastEvent'.ncalls
          /\ stepIdx' = 1]_vars

(* a response with the marker and tool calls ended the run; no tool ran *)
C23_Witness ==
    /\ pc = "idle"
    /\ lastResult = "completed"
    /\ lastEvent.src = "model"
    /\ lastEvent.text = MarkerText
    /\ lastEvent.ncalls > 0
    /\ finalAnswers = <<MarkerText>>
    /\ toolWindow = <<>>
    /\ newSteps = <<>>

-----------------------------------------------------------------------------
(* the tool calls of a response are done and the next message goes to the  *)
(* model                                                                   *)
ToolBlockAnswered == pc = "executing" /\ pc' = "model"

(* the message carries the result of the i-th step *)
CarriesResultOf(msg, steps, i) ==
    /\ i <= Len(msg.parts)
    /\ msg.parts[i].name = steps[i].toolCall.name

(* C24 as stated: the structured result of every successfully executed     *)
(* tool call is part of the next message sent to the model, also when a    *)
(* later call of the same turn failed.                                     *)
C24_ResultsFedBack ==
    [][ToolBlockAnswered =>
          \A i \in 1..Len(newSteps') :
              newSteps'[i].status = "completed" =>
                  CarriesResultOf(currentMessage', newSteps', i)]_vars

(* the same for turns in which no call failed *)
C24_WithoutFailure ==
    [][(ToolBlockAnswered /\ newSteps'[stepIdx].status = "completed") =>
          /\ currentMessage'.kind = "tool_results"
          /\ Len(currentMessage'.parts) = Len(newSteps')
          /\ \A i \in 1..Len(newSteps') :
                CarriesResultOf(currentMessage', newSteps', i)]_vars

(* the schema call succeeded, the next call of the turn failed, and the    *)
(* message sent to the model carries no tool result                        *)
C24_Witness ==
    /\ pc = "model"
    /\ Len(newSteps) = 2
    /\ newSteps[1].status = "completed"
    /\ newSteps[1].toolCall = SchemaCall(BaseName)
    /\ newSteps[2].status = "error"
    /\ currentMessage = SelfCorrectionMsg("no_such_tool", ToolNotFound)
    /\ currentMessage.parts = <<>>

-----------------------------------------------------------------------------
(* an aggregate_data call is executed *)
Aggregating ==
    /\ pc = "executing"
    /\ newSteps' # newSteps
    /\ newSteps[stepIdx].toolCall.name = "aggregate_data"

(* C25 as stated: aggregate_data with a function other than sum, count,    *)
(* average, max and min fails with an error and creates no dataset, for    *)
(* every input dataset, one with zero rows included.                       *)
C25_UnsupportedFunctionFails ==
    [][(Aggregating /\ newSteps[stepIdx].toolCall.aggregation_function
                          \notin {"sum", "count", "average", "max", "min"}) =>
          /\ newSteps'[stepIdx].status = "error"
          /\ UNCHANGED <<intermediateData, stepCounter>>]_vars

(* the same for input datasets that have a row *)
C25_OnRows ==
    [][(Aggregating /\ newSteps[stepIdx].toolCall.aggregation_function
                          \notin {"sum", "count", "average", "max", "min"}
                   /\ HasDataset(intermediateData, dataContext,
                                 newSteps[stepIdx].toolCall.dataset_name)
                   /\ getDataset(intermediateData, dataContext,
                                 newSteps[stepIdx].toolCall.dataset_name).data # <<>>) =>
          /\ newSteps'[stepIdx].status = "error"
          /\ newSteps'[stepIdx].error = UnsupportedAggregation
          /\ UNCHANGED <<intermediateData, stepCounter>>]_vars

(* the median of the empty step_1_result was "computed" and saved as       *)
(* step_2_result                                                           *)
C25_Witness ==
    /\ newSteps # <<>>
    /\ Last(newSteps).status = "completed"
    /\ Last(newSteps).toolCall.name = "aggregate_data"
    /\ Last(newSteps).toolCall.aggregation_function = "median"
    /\ Last(newSteps).toolCall.dataset_name = StepName(1)
    /\ StepName(2) \in DOMAIN intermediateData
    /\ intermediateData[StepName(1)].data = <<>>
    /\ intermediateData[StepName(2)].data = <<>>

-----------------------------------------------------------------------------
(* the group_by values of a row *)
TupleOf(row, cols) == [i \in 1..Len(cols) |-> Get(row, cols[i])]

C26_Step ==
    (Aggregating /\ newSteps'[stepIdx].status = "completed"
                /\ newSteps[stepIdx].toolCall.aggregation_function = "count") =>
        LET call == newSteps[stepIdx].toolCall
            cols == call.group_by_columns
            input == getDataset(intermediateData, dataContext, call.dataset_name).data
            output == intermediateData'[StepName(stepCounter')].data
            tuples == {TupleOf(input[i], cols) : i \in 1..Len(input)}
        IN  /\ Len(output) = Cardinality(tuples)
            /\ \A t \in tuples :
                  \E k \in 1..Len(output) :
                      /\ TupleOf(output[k], cols) = t
                      /\ output[k][call.aggregation_column \o "_count"] =
                            Num(Cardinality({i \in 1..Len(input) :
                                                TupleOf(input[i], cols) = t}))

(* C26 as stated: aggregate_data outputs one row for every distinct tuple  *)
(* of group_by values in the input; with count the row's value is the      *)
(* number of input rows with that tuple, so the counts sum to the number   *)
(* of input rows.                                                          *)
C26_OneRowPerTuple == [][C26_Step]_vars

(* the counts of the output rows sum to the number of input rows *)
C26_CountsSum ==
    [][(Aggregating /\ newSteps'[stepIdx].status = "completed"
                   /\ newSteps[stepIdx].toolCall.aggregation_function = "count") =>
          sumOf([k \in 1..Len(intermediateData'[StepName(stepCounter')].data) |->
                    intermediateData'[StepName(stepCounter')].data[k]["amount_count"]])
            = Len(getDataset(intermediateData, dataContext,
                             newSteps[stepIdx].toolCall.dataset_name).data)]_vars

(* the rows ("a-b", "c") and ("a", "b-c") were counted as one group of two *)
C26_Witness ==
    /\ newSteps # <<>>
    /\ Last(newSteps).status = "completed"
    /\ Last(newSteps).toolCall.name = "aggregate_data"
    /\ Last(newSteps).toolCall.aggregation_function = "count"
    /\ BaseName \in DOMAIN dataContext
    /\ Len(dataContext[BaseName].data) = 2
    /\ dataContext[BaseName].data[1].region = Str(<<"a", "-", "b">>)
    /\ dataContext[BaseName].data[1].desk = Str(<<"c">>)
    /\ dataContext[BaseName].data[2].region = Str(<<"a">>)
    /\ dataContext[BaseName].data[2].desk = Str(<<"b", "-", "c">>)
    /\ StepName(1) \in DOMAIN intermediateData
    /\ intermediateData[StepName(1)].data =
          <<[region |-> Str(<<"a", "-", "b">>), desk |-> Str(<<"c">>),
             amount_count |-> Num(2)]>>

-----------------------------------------------------------------------------
(* the key column of the rows a join emits: out is laid out as the rows of *)
(* the left rows in order (for left and full joins) followed by the rows   *)
(* of the unmatched right rows in order (for right and full joins); null   *)
(* and undefined count as the same absent key                              *)
KeysCoalesced(call, L, R, out) ==
    LET leftOn == call.left_on_column
        rightOn == call.right_on_column
        Equal(i, j) == Get(L[i], leftOn) = Get(R[j], rightOn)
        matches(i) == Cardinality({j \in 1..Len(R) : Equal(i, j)})
        unmatchedRight == SelectSeq([j \in 1..Len(R) |-> j],
                                    LAMBDA j : \A i \in 1..Len(L) : ~Equal(i, j))
        RECURSIVE Before(_)
        Before(i) ==
            IF i = 1 THEN 0
            ELSE Before(i - 1) + (IF matches(i - 1) > 0 THEN matches(i - 1) ELSE 1)
    IN  /\ call.join_type \in {"left", "full"} =>
              \A i \in 1..Len(L) :
                  \A k \in (Before(i) + 1)..Before(i + 1) :
                      OrNull(Get(out[k], leftOn)) = OrNull(Get(L[i], leftOn))
        /\ call.join_type \in {"right", "full"} =>
              \A k \in 1..Len(unmatchedRight) :
                  /\ Len(out) - Len(unmatchedRight) + k >= 1
                  /\ OrNull(Get(out[Len(out) - Len(unmatchedRight) + k], leftOn))
                        = OrNull(Get(R[unmatchedRight[k]], rightOn))

(* the datasets of the join_datasets call being executed and its result *)
JoinLeft ==
    getDataset(intermediateData, dataContext, newSteps[stepIdx].toolCall.dataset_name).data
JoinRight ==
    getDataset(intermediateData, dataContext,
               newSteps[stepIdx].toolCall.right_dataset_name).data
JoinOutput == intermediateData'[StepName(stepCounter')].data

(* C27 as stated: in every output row of join_datasets the join-key column *)
(* holds the left row's key when that is not null and the right row's key  *)
(* otherwise; a row emitted for an unmatched right row carries that row's  *)
(* key, whatever the left dataset, one with zero rows included.            *)
C27_KeyCoalesced ==
    [][Completes("join_datasets") =>
          KeysCoalesced(newSteps[stepIdx].toolCall, JoinLeft, JoinRight, JoinOutput)]_vars

(* the same for left datasets that have a row *)
C27_WithLeftRows ==
    [][(Completes("join_datasets") /\ JoinLeft # <<>>) =>
          KeysCoalesced(newSteps[stepIdx].toolCall, JoinLeft, JoinRight, JoinOutput)]_vars

(* a full join of the empty step_1_result with a right row of key "a":     *)
(* the output row has no key column at all                                 *)
C27_Witness ==
    /\ newSteps # <<>>
    /\ Last(newSteps).status = "completed"
    /\ Last(newSteps).toolCall = JoinCall(StepName(1), RightName, "id", "acct", "full")
    /\ StepName(2) \in DOMAIN intermediateData
    /\ intermediateData[StepName(1)].data = <<>>
    /\ dataContext[RightName].data = <<RightRow(Str("a"))>>
    /\ intermediateData[StepName(2)].data = <<[name |-> Str("r")]>>

-----------------------------------------------------------------------------
(* pairs of a row of L and a row of R with equal keys *)
MatchedPairs(L, R, leftOn, rightOn) ==
    {p \in (1..Len(L)) \X (1..Len(R)) : Get(L[p[1]], leftOn) = Get(R[p[2]], rightOn)}

(* rows of R whose key is the key of no row of L *)
UnmatchedIn(R, L, rightOn, leftOn) ==
    {j \in 1..Len(R) : \A i \in 1..Len(L) : Get(L[i], leftOn) # Get(R[j], rightOn)}

RightJoined == Completes("join_datasets") /\ newSteps[stepIdx].toolCall.join_type = "right"

(* C28 as stated: a right join of (L, R) outputs as many rows as a left    *)
(* join of (R, L) with the on-columns swapped: one row for every pair of   *)
(* rows with equal keys and one for every right row whose key matches no   *)
(* left row.                                                               *)
C28_RightJoinMirrorsLeft ==
    [][RightJoined =>
          LET call == newSteps[stepIdx].toolCall
          IN  /\ Len(JoinOutput) =
                    Cardinality(MatchedPairs(JoinLeft, JoinRight, call.left_on_column,
                                             call.right_on_column))
                    + Cardinality(UnmatchedIn(JoinRight, JoinLeft, call.right_on_column,
                                              call.left_on_column))
              /\ Len(JoinOutput) =
                    Len(joinedData(getDataset(intermediateData, dataContext,
                                              call.right_dataset_name),
                                   getDataset(intermediateData, dataContext,
                                              call.dataset_name),
                                   call.right_on_column, call.left_on_column, "left"))]_vars

(* the rows of the unmatched right rows are there *)
C28_UnmatchedRightOnly ==
    [][RightJoined =>
          Len(JoinOutput) =
              Cardinality(UnmatchedIn(JoinRight, JoinLeft,
                                      newSteps[stepIdx].toolCall.right_on_column,
                                      newSteps[stepIdx].toolCall.left_on_column))]_vars

(* the right join of one left and one right row with the same key is empty *)
C28_Witness ==
    /\ newSteps # <<>>
    /\ Last(newSteps).status = "completed"
    /\ Last(newSteps).toolCall = JoinCall(LeftName, RightName, "id", "acct", "right")
    /\ dataContext[LeftName].data = <<LeftRow(Str("a"))>>
    /\ dataContext[RightName].data = <<RightRow(Str("a"))>>
    /\ DOMAIN intermediateData = {StepName(1)}
    /\ intermediateData[StepName(1)].data = <<>>

-----------------------------------------------------------------------------
(* C29: a run of runChat that returns completed has called onFinalAnswer   *)
(* exactly once and a run that returns clarification_needed has not        *)
(* called it, on every path to the return; until it returns, a run has     *)
(* called it not at all.                                                   *)
C29_OneFinalAnswer ==
    /\ (pc = "idle" /\ lastResult = "completed") => Len(finalAnswers) = 1
    /\ (pc = "idle" /\ lastResult = "clarification_needed") => finalAnswers = <<>>
    /\ pc # "idle" => finalAnswers = <<>>

(* the run ended on the second tool failure in a row *)
C29_Witness ==
    /\ pc = "idle"
    /\ lastResult = "completed"
    /\ consecutiveErrors = MAX_CONSECUTIVE_ERRORS
    /\ finalAnswers = <<TOOL_ERROR_MSG>>

(* the run ended with a question of the Strategist *)
C29_WitnessClarification ==
    /\ pc = "idle"
    /\ lastResult = "clarification_needed"
    /\ sent = 0
    /\ finalAnswers = <<>>

(* the other ways a run ends: approval, unreviewed text, marker question,  *)
(* repeated invalid responses, repeated empty responses, turn ceiling      *)
C29_WitnessApproved ==
    pc = "idle" /\ lastResult = "completed" /\ lastEvent.src = "reviewer"
C29_WitnessUnreviewed ==
    /\ pc = "idle" /\ lastResult = "completed" /\ lastEvent.src = "model"
    /\ finalAnswers = <<AnswerText>>
C29_WitnessMarker ==
    pc = "idle" /\ lastResult = "completed" /\ finalAnswers = <<MarkerText>>
C29_WitnessInvalid ==
    pc = "idle" /\ lastResult = "completed" /\ finalAnswers = <<INVALID_MSG>>
C29_WitnessEmpty ==
    pc = "idle" /\ lastResult = "completed" /\ finalAnswers = <<NO_RESPONSE_MSG>>
C29_WitnessCeiling ==
    pc = "idle" /\ lastResult = "completed" /\ finalAnswers = <<STEP_LIMIT_MSG>>

-----------------------------------------------------------------------------
(* runChat lines 628-685: the steps of the latest tool block that the plan *)
(* still shows as pending.  A step is set to completed or to error only    *)
(* when the for loop reaches it, and the loop is left at the first failure *)
openSteps == {i \in 1..Len(newSteps) : newSteps[i].status = "pending"}

(* runChat lines 609-614, 670-684 and 719-730: the revision step pushed    *)
(* with status running together with the self-correction or the revision  *)
(* prompt is set to completed only by a later response that has tool       *)
(* calls.  When the run returns on a response without tool calls while     *)
(* that prompt is still the message last sent, the step is still running   *)
revisionStepRunning ==
    /\ currentMessage.kind \in {"self_correction", "revision"}
    /\ lastEvent.src = "model"
    /\ lastEvent.ncalls = 0

(* C30: when a run has returned, no step of the plan is left pending or    *)
(* running: every step appended for the tool calls of a response is        *)
(* completed or error, and no revision step is still running.              *)
C30_NoStepLeftOpen ==
    RunReturned =>
        /\ \A i \in 1..Len(newSteps) : newSteps[i].status \in {"completed", "error"}
        /\ ~revisionStepRunning

(* what holds of the returned run: the steps up to the first failure are   *)
(* closed, a pending step only follows a step that failed, and a revision  *)
(* step is left running only after a failed step or a review that asked    *)
(* for a revision                                                          *)
C30_OpenOnlyAfterFailure ==
    RunReturned =>
        /\ \A i \in openSteps : \E j \in 1..(i - 1) : newSteps[j].status = "error"
        /\ \A i \in 1..Len(newSteps) :
              newSteps[i].status = "error" =>
                 \A j \in 1..(i - 1) : newSteps[j].status = "completed"
        /\ revisionStepRunning =>
              \/ \E i \in 1..Len(newSteps) : newSteps[i].status = "error"
              \/ reviewStep = "warning"

(* the first of two tool calls failed, the model then answered in text:    *)
(* the second step is pending and the revision step running at the return  *)
C30_Witness ==
    /\ RunReturned
    /\ finalAnswers = <<AnswerText>>
    /\ Len(newSteps) = 2
    /\ newSteps[1].toolCall = UnknownCall
    /\ newSteps[1].status = "error"
    /\ newSteps[2].toolCall = SchemaCall(BaseName)
    /\ newSteps[2].status = "pending"
    /\ revisionStepRunning

(* the second failure in a row ends the run with a step still pending *)
C30_WitnessStopped ==
    /\ RunReturned
    /\ finalAnswers = <<TOOL_ERROR_MSG>>
    /\ Len(newSteps) = 2
    /\ newSteps[1].status = "error"
    /\ newSteps[2].status = "pending"

(* a run whose steps all completed *)
C30_WitnessClosed ==
    /\ RunReturned
    /\ Len(newSteps) = 2
    /\ \A i \in 1..2 : newSteps[i].status = "completed"
    /\ ~revisionStepRunning

(* the Reviewer asked for a revision and the model then put a question to  *)
(* the user: the revise_plan_based_on_feedback step is running at the      *)
(* return                                                                  *)
C30_WitnessFeedback ==
    /\ RunReturned
    /\ reviewStep = "warning"
    /\ currentMessage.kind = "revision"
    /\ revisionStepRunning

====
